---- MODULE Spec2Model ----
(***************************************************************************)
(* Credit-card statement parsers (src/parsers/*.py): the per-bank header   *)
(* lookups, amount normalizers, transaction line scanners and the document *)
(* handle life cycle, modelled over text as sequences of characters.       *)
(*                                                                         *)
(* A string is a sequence of one-character strings; a character outside    *)
(* ASCII is written as a named token ("<rupee>", "<endash>", "<minus>").   *)
(* Python's None is the value None below, never a character sequence.      *)
(***************************************************************************)
EXTENDS Integers, Sequences, FiniteSets, TLC

VARIABLES
    bank,          \* the profile under execution
    pc,            \* position in the profile's code
    raw,           \* page text as the sequence of its raw lines
    lines,         \* the profile's normalized line list
    i,             \* parse_amex: scan cursor (0-based, as in the code)
    hdr,           \* header fields found so far
    transactions,  \* transaction records appended so far
    txsrc,         \* history: per record, the 0-based lines it was built from
    last,          \* history: outcome of the latest scan iteration
    visited,       \* history: the cursor positions the scan loop has examined
    doc,           \* life cycle: the document handed to parse
    handles,       \* life cycle: state of every handle opened so far
    cursor,        \* life cycle: pages read so far from the current handle
    outcome        \* life cycle: what parse gave back to its caller

vars == <<bank, pc, raw, lines, i, hdr, transactions, txsrc, last, visited,
          doc, handles, cursor, outcome>>

-----------------------------------------------------------------------------
(* Characters and strings                                                  *)

None == <<"None">>

Digits == {"0","1","2","3","4","5","6","7","8","9"}
\* \s of the regular expressions and of str.strip(); [ \t] of the normalizers
WS == {" ", "\t", "\n"}
Blank == {" ", "\t"}
UpperSeq == <<"A","B","C","D","E","F","G","H","I","J","K","L","M","N","O","P","Q","R","S","T","U","V","W","X","Y","Z">>
LowerSeq == <<"a","b","c","d","e","f","g","h","i","j","k","l","m","n","o","p","q","r","s","t","u","v","w","x","y","z">>
Letters == {UpperSeq[k] : k \in 1..26} \cup {LowerSeq[k] : k \in 1..26}
WordChars == Letters \cup Digits \cup {"_"}
DigitsComma == Digits \cup {","}
DigitsCommaMinus == Digits \cup {",", "-"}
DigitsDot == Digits \cup {"."}
DigitsDotMinus == Digits \cup {".", "-"}
LabelGap == WS \cup {":"}

UpperSet == {UpperSeq[k] : k \in 1..26}
LowerOf == [c \in UpperSet |-> LowerSeq[CHOOSE k \in 1..26 : UpperSeq[k] = c]]
Lower(c) == IF c \in UpperSet THEN LowerOf[c] ELSE c

LowerStr(s) == [k \in 1..Len(s) |-> Lower(s[k])]

Max(S) == CHOOSE x \in S : \A y \in S : y <= x
Min(S) == CHOOSE x \in S : \A y \in S : x <= y

\* s[a..b] (1-based, inclusive), empty when b < a
Sub(s, a, b) == IF b < a THEN <<>> ELSE SubSeq(s, a, b)

\* the literal lit stands at position p of s
HasAt(s, p, lit) ==
    /\ p >= 1
    /\ p + Len(lit) - 1 <= Len(s)
    /\ \A k \in 1..Len(lit) : s[p + k - 1] = lit[k]

\* the same, ignoring case (re.I)
HasAtI(s, p, lit) ==
    /\ p >= 1
    /\ p + Len(lit) - 1 <= Len(s)
    /\ \A k \in 1..Len(lit) : Lower(s[p + k - 1]) = Lower(lit[k])

\* end of the longest run of characters of cls starting at p (p-1 when empty)
RECURSIVE RunEnd(_, _, _)
RunEnd(s, p, cls) ==
    IF p <= Len(s) /\ s[p] \in cls THEN RunEnd(s, p + 1, cls) ELSE p - 1

\* start of the longest run of characters of cls ending at p (p+1 when empty)
RECURSIVE RunStart(_, _, _)
RunStart(s, p, cls) ==
    IF p >= 1 /\ s[p] \in cls THEN RunStart(s, p - 1, cls) ELSE p + 1

\* str.strip(), str.rstrip()
Strip(s) ==
    LET b == RunEnd(s, 1, WS) + 1
        e == RunStart(s, Len(s), WS) - 1
    IN  Sub(s, b, e)

RStrip(s) == Sub(s, 1, RunStart(s, Len(s), WS) - 1)

\* str.replace(lit, rep), left to right, non-overlapping
RECURSIVE ReplaceFrom(_, _, _, _)
ReplaceFrom(s, p, lit, rep) ==
    IF p > Len(s) THEN <<>>
    ELSE IF HasAt(s, p, lit)
         THEN rep \o ReplaceFrom(s, p + Len(lit), lit, rep)
         ELSE <<s[p]>> \o ReplaceFrom(s, p + 1, lit, rep)

Replace(s, lit, rep) == ReplaceFrom(s, 1, lit, rep)

\* re.sub(r'[cls]', '', s)
DropChars(s, cls) == SelectSeq(s, LAMBDA c : c \notin cls)

\* re.sub(r'[ \t]+', ' ', s)
RECURSIVE CollapseFrom(_, _)
CollapseFrom(s, p) ==
    IF p > Len(s) THEN <<>>
    ELSE IF s[p] \in Blank
         THEN <<" ">> \o CollapseFrom(s, RunEnd(s, p, Blank) + 1)
         ELSE <<s[p]>> \o CollapseFrom(s, p + 1)

CollapseSpaces(s) == CollapseFrom(s, 1)

\* " ".join(seq of strings)
RECURSIVE JoinSp(_)
JoinSp(ss) ==
    IF Len(ss) = 0 THEN <<>>
    ELSE IF Len(ss) = 1 THEN ss[1]
    ELSE ss[1] \o <<" ">> \o JoinSp(Tail(ss))

\* Python truthiness of an optional string
Falsy(x) == x = None \/ x = <<>>

-----------------------------------------------------------------------------
(* float(s) and f"{x:.2f}" on the strings the normalizers hand to them:    *)
(* an optional sign, digits with at most one decimal point.                *)

\* float(s) does not raise ValueError
FloatOK(s) ==
    LET neg  == Len(s) >= 1 /\ s[1] = "-"
        body == IF neg THEN Tail(s) ELSE s
        dots == {k \in 1..Len(body) : body[k] = "."}
    IN  /\ \A k \in 1..Len(body) : body[k] \in DigitsDot
        /\ Cardinality(dots) <= 1
        /\ \E k \in 1..Len(body) : body[k] \in Digits

\* digits with the leading zeros dropped, "0" when nothing is left
RECURSIVE DropLeadingZeros(_)
DropLeadingZeros(d) ==
    IF Len(d) = 0 THEN <<"0">>
    ELSE IF d[1] = "0" /\ Len(d) > 1 THEN DropLeadingZeros(Tail(d))
    ELSE d

\* f"{abs(float(s)):.2f}" for FloatOK(s) with at most two decimals (every
\* call site passes a token cut by a \.\d{2} or integer pattern)
Fmt2Abs(s) ==
    LET neg  == Len(s) >= 1 /\ s[1] = "-"
        body == IF neg THEN Tail(s) ELSE s
        dots == {k \in 1..Len(body) : body[k] = "."}
        dot  == IF dots = {} THEN Len(body) + 1 ELSE Min(dots)
        ip   == Sub(body, 1, dot - 1)
        fp   == Sub(body, dot + 1, Len(body)) \o <<"0","0">>
    IN  DropLeadingZeros(ip) \o <<".">> \o Sub(fp, 1, 2)

\* float(s) < 0 or float(s) is -0.0: whether f"{float(s):.2f}" prints a sign
FloatNegative(s) == Len(s) >= 1 /\ s[1] = "-"

-----------------------------------------------------------------------------
(* parsers/amex_parser.py                                                  *)

\* _clean_amount, lines 10-22: symbols, parentheses, commas, stray characters
AmexParenToMinus(s) ==
    IF HasAt(s, 1, <<"(">>) /\ HasAt(s, Len(s), <<")">>)
    THEN <<"-">> \o Sub(s, 2, Len(s) - 1)
    ELSE s

\* a faulty variant of the cleanup: the decimal point is dropped with the
\* stray characters
AmexStripAmountDroppingPoint(tok) ==
    SelectSeq(
        AmexParenToMinus(
            Strip(Replace(Replace(Replace(Replace(tok,
                <<"$">>, <<>>), <<"U","S","D">>, <<>>),
                <<"<endash>">>, <<"-">>), <<"<minus>">>, <<"-">>))),
        LAMBDA c : c \in Digits \cup {"-"})

AmexStripAmount(tok) ==
    SelectSeq(
        AmexParenToMinus(
            Strip(Replace(Replace(Replace(Replace(tok,
                <<"$">>, <<>>), <<"U","S","D">>, <<>>),
                <<"<endash>">>, <<"-">>), <<"<minus>">>, <<"-">>))),
        LAMBDA c : c \in DigitsDotMinus)

\* _clean_amount, lines 23-33: the parse, and the digits-only second try
AmexFormatAmount(s) ==
    IF s \in {<<>>, <<"-">>, <<".">>} THEN None
    ELSE IF FloatOK(s) THEN Fmt2Abs(s)
    ELSE IF FloatOK(SelectSeq(s, LAMBDA c : c \in DigitsDot))
         THEN Fmt2Abs(SelectSeq(s, LAMBDA c : c \in DigitsDot))
         ELSE None

\* _clean_amount(tok)
AmexCleanAmount(tok) ==
    IF tok = None THEN None ELSE AmexFormatAmount(AmexStripAmount(tok))

\* _extract_text's noise normalization of one raw line (lines 53-56) and the
\* list comprehension of line 91: stripped, blank lines dropped
AmexNormLine(ln) ==
    CollapseSpaces(Replace(Replace(ln, <<"<bullet>">>, <<" ">>), <<"<uf0b7>">>, <<" ">>))

AmexLines(rawLines) ==
    SelectSeq([k \in 1..Len(rawLines) |-> Strip(AmexNormLine(rawLines[k]))],
              LAMBDA ln : ln # <<>>)

\* ends e of the matches of \d{1,2}[\/-]\d{1,2}[\/-]\d{2,4} that start at p
DateSeps == {"/", "-"}
AmexDateEnds3(s, e2, e3) ==
    IF e3 - (e2 + 2) + 1 >= 2 THEN {e \in (e2 + 3)..(e2 + 5) : e <= e3} ELSE {}

AmexDateEnds2(s, e1, e2) ==
    IF /\ e2 - (e1 + 2) + 1 \in {1, 2}
       /\ e2 + 1 <= Len(s) /\ s[e2 + 1] \in DateSeps
    THEN AmexDateEnds3(s, e2, RunEnd(s, e2 + 2, Digits)) ELSE {}

AmexDateEnds1(s, p, e1) ==
    IF /\ e1 - p + 1 \in {1, 2}
       /\ e1 + 1 <= Len(s) /\ s[e1 + 1] \in DateSeps
    THEN AmexDateEnds2(s, e1, RunEnd(s, e1 + 2, Digits)) ELSE {}

AmexDateEnds(s, p) ==
    IF p >= 1 /\ p <= Len(s) /\ s[p] \in Digits
    THEN AmexDateEnds1(s, p, RunEnd(s, p, Digits)) ELSE {}

\* [0-9,]+\.\d{2} matches all of t
AmexCoreAmount(t) ==
    /\ Len(t) >= 4
    /\ t[Len(t) - 2] = "."
    /\ t[Len(t) - 1] \in Digits /\ t[Len(t)] \in Digits
    /\ \A k \in 1..(Len(t) - 3) : t[k] \in DigitsComma

\* a faulty variant of the third group of TX_LINE_RE: an amount without a
\* sign, a currency symbol or parentheses is not accepted
AmexTxAmountMarked(t) ==
    \/ HasAt(t, 1, <<"-">>) /\ AmexCoreAmount(Tail(t))
    \/ HasAt(t, 1, <<"$">>) /\ AmexCoreAmount(Tail(t))
    \/ HasAt(t, 1, <<"-", "$">>) /\ AmexCoreAmount(Tail(Tail(t)))
    \/ /\ HasAt(t, 1, <<"(">>) /\ HasAt(t, Len(t), <<")">>)
       /\ AmexCoreAmount(Sub(t, 2, Len(t) - 1))

\* the third group of TX_LINE_RE matches all of t:
\* -?\$?[0-9,]+\.\d{2} | \([0-9,]+\.\d{2}\)
AmexTxAmount(t) ==
    \/ AmexCoreAmount(t)
    \/ HasAt(t, 1, <<"-">>) /\ AmexCoreAmount(Tail(t))
    \/ HasAt(t, 1, <<"$">>) /\ AmexCoreAmount(Tail(t))
    \/ HasAt(t, 1, <<"-", "$">>) /\ AmexCoreAmount(Tail(Tail(t)))
    \/ /\ HasAt(t, 1, <<"(">>) /\ HasAt(t, Len(t), <<")">>)
       /\ AmexCoreAmount(Sub(t, 2, Len(t) - 1))

\* the amount group of line 244 matches all of t: [0-9,]+\.\d{2}
AmexLooseAmount(t) == AmexCoreAmount(t)

\* \s+(.+?)\s+(AMOUNT) after a date that ends at e, the amount ending at z:
\* every <<ds, de>> (first and last character of the description) for which
\* the rest of the line fits
TxTailFits(ln, e, z, strict) ==
    {c \in ((e + 2)..(RunEnd(ln, e + 1, WS) + 1)) \X ((e + 2)..(z - 1)) :
        /\ c[2] >= c[1]
        /\ ln[c[2] + 1] \in WS
        /\ RunEnd(ln, c[2] + 1, WS) + 1 <= z
        /\ IF strict
           THEN AmexTxAmount(Sub(ln, RunEnd(ln, c[2] + 1, WS) + 1, z))
           ELSE AmexLooseAmount(Sub(ln, RunEnd(ln, c[2] + 1, WS) + 1, z))}

\* the match the regex engine reports among them: \s+ greedy (the latest
\* start of the description), then .+? lazy (its earliest end)
NoTx == [ok |-> FALSE, date |-> <<>>, desc |-> <<>>, amt |-> <<>>]

TxPick(ln, a, e, z, fits) ==
    IF fits = {} THEN NoTx
    ELSE LET ds == Max({c[1] : c \in fits})
             de == Min({c[2] : c \in {x \in fits : x[1] = Max({y[1] : y \in fits})}})
         IN  [ok |-> TRUE, date |-> Sub(ln, a, e), desc |-> Sub(ln, ds, de),
              amt |-> Sub(ln, RunEnd(ln, de + 1, WS) + 1, z)]

\* the date of a line pattern starts at a and must be followed by \s
TxDateEnd(ln, a) ==
    {e \in AmexDateEnds(ln, a) : e + 1 <= Len(ln) /\ ln[e + 1] \in WS}

TxMatchFrom(ln, a, ends, z, strict) ==
    IF ends = {} THEN NoTx
    ELSE TxPick(ln, a, Max(ends), z, TxTailFits(ln, Max(ends), z, strict))

\* TX_LINE_RE.match(ln): [ok, date, desc, amt]
TxLineMatch(ln) ==
    TxMatchFrom(ln, RunEnd(ln, 1, WS) + 1,
                TxDateEnd(ln, RunEnd(ln, 1, WS) + 1),
                RunStart(ln, Len(ln), WS) - 1, TRUE)

\* line 244: re.match(r'^(date)\s+(.+?)\s+([0-9,]+\.\d{2})$', ln)
LooseMatch(ln) ==
    TxMatchFrom(ln, 1, TxDateEnd(ln, 1), Len(ln), FALSE)

\* re.match(r'^\s*(\d{1,2}[\/-]\d{1,2}[\/-]\d{2,4})(\*?)\s*$', ln): [ok, date]
DateOnlyRest(ln, e) ==
    RunEnd(ln, IF HasAt(ln, e + 1, <<"*">>) THEN e + 2 ELSE e + 1, WS) = Len(ln)

DateOnlyFrom(ln, a, ends) ==
    IF ends = {} THEN [ok |-> FALSE, date |-> <<>>]
    ELSE [ok |-> TRUE, date |-> Sub(ln, a, Max(ends))]

DateOnlyMatch(ln) ==
    DateOnlyFrom(ln, RunEnd(ln, 1, WS) + 1,
                 {e \in AmexDateEnds(ln, RunEnd(ln, 1, WS) + 1) : DateOnlyRest(ln, e)})

\* line 209: ^[\$\(]?[0-9,\-]+\.\d{2}\)?$ on the (stripped) next line
AmountOnlyCore(t, p, q) ==
    /\ q - p + 1 >= 4
    /\ t[q - 2] = "." /\ t[q - 1] \in Digits /\ t[q] \in Digits
    /\ \A k \in p..(q - 3) : t[k] \in DigitsCommaMinus

AmountOnlyStripped(t) ==
    AmountOnlyCore(t,
        IF Len(t) >= 1 /\ t[1] \in {"$", "("} THEN 2 ELSE 1,
        IF Len(t) >= 1 /\ t[Len(t)] = ")" THEN Len(t) - 1 ELSE Len(t))

AmountOnlyLine(ln) == AmountOnlyStripped(Strip(ln))

\* line 220: re.search(r'([-\$\(]?[0-9,]+\.\d{2}\)?)', cand): the end of the
\* match that starts at p (0 when none does), and the leftmost match
AmountEndFrom(cand, q, r) ==
    IF /\ r >= q
       /\ r + 3 <= Len(cand)
       /\ cand[r + 1] = "."
       /\ cand[r + 2] \in Digits /\ cand[r + 3] \in Digits
    THEN (IF HasAt(cand, r + 4, <<")">>) THEN r + 4 ELSE r + 3)
    ELSE 0

AmountEndAt(cand, p) ==
    IF cand[p] \in {"-", "$", "("}
    THEN AmountEndFrom(cand, p + 1, RunEnd(cand, p + 1, DigitsComma))
    ELSE AmountEndFrom(cand, p, RunEnd(cand, p, DigitsComma))

RECURSIVE AmountSearchFrom(_, _)
AmountSearchFrom(cand, p) ==
    IF p > Len(cand) THEN [ok |-> FALSE, tok |-> <<>>]
    ELSE IF AmountEndAt(cand, p) > 0
         THEN [ok |-> TRUE, tok |-> Sub(cand, p, AmountEndAt(cand, p))]
         ELSE AmountSearchFrom(cand, p + 1)

AmountSearch(cand) == AmountSearchFrom(cand, 1)

\* a faulty variant of the credit test: always true
AmexCreditAlways(amt_raw) == TRUE

\* lines 185 and 223: the credit test on the raw amount token
AmexCredit(amt_raw) ==
    \/ \E p \in 1..Len(amt_raw) : HasAt(amt_raw, p, <<"-", "$">>)
    \/ HasAt(amt_raw, 1, <<"-">>)
    \/ HasAt(amt_raw, 1, <<"(">>)

\* lines[:k]
Take(L, k) == Sub(L, 1, IF Len(L) < k THEN Len(L) ELSE k)

\* the words of a label, \s+ between them, ignoring case, stand at p:
\* the position after the label, 0 when they do not
RECURSIVE LabelEnd(_, _, _)
LabelEnd(s, p, words) ==
    IF ~HasAtI(s, p, words[1]) THEN 0
    ELSE IF Len(words) = 1 THEN p + Len(words[1])
    ELSE LET q == p + Len(words[1])
             r == RunEnd(s, q, WS)
         IN  IF r < q THEN 0 ELSE LabelEnd(s, r + 1, Tail(words))

\* value patterns: <<first, last>> of the captured group at q, <<0, 0>> if none
NoGroup == <<0, 0>>

\* ([0-9]{1,2}[\/-][0-9]{1,2}[\/-][0-9]{2,4})
DateGroupOf(q, ends) == IF ends = {} THEN NoGroup ELSE <<q, Max(ends)>>
DateGroup(s, q) == DateGroupOf(q, AmexDateEnds(s, q))

\* \$?([0-9\-,]+\.\d{2})
MoneyGroupFrom(s, b, r) ==
    IF /\ r >= b /\ r + 3 <= Len(s)
       /\ s[r + 1] = "." /\ s[r + 2] \in Digits /\ s[r + 3] \in Digits
    THEN <<b, r + 3>> ELSE NoGroup

MoneyGroup(s, q) ==
    IF HasAt(s, q, <<"$">>)
    THEN MoneyGroupFrom(s, q + 1, RunEnd(s, q + 1, DigitsCommaMinus))
    ELSE MoneyGroupFrom(s, q, RunEnd(s, q, DigitsCommaMinus))

\* ([0-9\-Xx]{2,20})
AccountTokenMax == 20
AccountChars == Digits \cup {"-", "X", "x"}
AccountGroupFrom(q, r) ==
    IF r >= q + 1
    THEN <<q, IF r > q + AccountTokenMax - 1 THEN q + AccountTokenMax - 1 ELSE r>>
    ELSE NoGroup

AccountGroup(s, q) == AccountGroupFrom(q, RunEnd(s, q, AccountChars))

\* ([A-Za-z0-9\/\-\s]+) of line 266
LooseDueChars == Letters \cup Digits \cup WS \cup {"/", "-"}
LooseDueGroupFrom(q, r) == IF r >= q THEN <<q, r>> ELSE NoGroup
LooseDueGroup(s, q) == LooseDueGroupFrom(q, RunEnd(s, q, LooseDueChars))

ValueGroup(kind, s, q) ==
    CASE kind = "date"    -> DateGroup(s, q)
      [] kind = "money"   -> MoneyGroup(s, q)
      [] kind = "account" -> AccountGroup(s, q)
      [] kind = "loose"   -> LooseDueGroup(s, q)

\* label [:\s]* value matched at p: the group, NoGroup when it does not match
LabelValueAt(s, p, words, kind, q) ==
    IF q = 0 THEN NoGroup ELSE ValueGroup(kind, s, RunEnd(s, q, LabelGap) + 1)

\* re.search(label [:\s]* value, s, re.I).group(1), None when there is no match
RECURSIVE LabelValueFrom(_, _, _, _)
LabelValueFrom(s, p, words, kind) ==
    IF p > Len(s) THEN NoGroup
    ELSE IF Lower(s[p]) = words[1][1]
            /\ LabelValueAt(s, p, words, kind, LabelEnd(s, p, words)) # NoGroup
         THEN LabelValueAt(s, p, words, kind, LabelEnd(s, p, words))
         ELSE LabelValueFrom(s, p + 1, words, kind)

GroupText(s, g) == IF g = NoGroup THEN None ELSE Sub(s, g[1], g[2])

LabelValue(s, words, kind) == GroupText(s, LabelValueFrom(s, 1, words, kind))

\* the first value LabelValue finds in a list of lines, line by line
RECURSIVE FirstLineValue(_, _, _)
FirstLineValue(L, words, kind) ==
    IF Len(L) = 0 THEN None
    ELSE IF LabelValue(L[1], words, kind) # None THEN LabelValue(L[1], words, kind)
    ELSE FirstLineValue(Tail(L), words, kind)

\* re.search(r'(\d{4})', tok).group(1), None when there is no match
RECURSIVE FourDigitsFrom(_, _)
FourDigitsFrom(tok, p) ==
    IF p + 3 > Len(tok) THEN None
    ELSE IF \A k \in p..(p + 3) : tok[k] \in Digits THEN Sub(tok, p, p + 3)
    ELSE FourDigitsFrom(tok, p + 1)

FirstFourDigits(tok) == FourDigitsFrom(tok, 1)

\* lines 108-111 and 260-261: card_last4 from the 'Account Ending' token
AmexCardFromToken(tok) ==
    IF FirstFourDigits(tok) # None THEN FirstFourDigits(tok) ELSE Strip(tok)

\* DATE_RANGE: \s*(?:to|-|TO|TO:)\s*(date) matches after a first date ending at e
RangeSecond(s, q) == AmexDateEnds(s, RunEnd(s, q, WS) + 1) # {}

RangeSep(s, q) ==
    \/ HasAtI(s, q, <<"t","o">>)  /\ RangeSecond(s, q + 2)
    \/ HasAt(s, q, <<"-">>) /\ RangeSecond(s, q + 1)
    \/ HasAtI(s, q, <<"t","o",":">>) /\ RangeSecond(s, q + 3)

RangeFirstEnds(s, p) ==
    {e \in AmexDateEnds(s, p) : RangeSep(s, RunEnd(s, e + 1, WS) + 1)}

\* DATE_RANGE.search(s).group(1), None when there is no match
RECURSIVE DateRangeFrom(_, _)
DateRangeFrom(s, p) ==
    IF p > Len(s) THEN None
    ELSE IF RangeFirstEnds(s, p) # {} THEN Sub(s, p, Max(RangeFirstEnds(s, p)))
    ELSE DateRangeFrom(s, p + 1)

DateRangeStart(s) == DateRangeFrom(s, 1)

\* DATE_SHORT.search(s).group(1), None when there is no match
RECURSIVE DateShortFrom(_, _)
DateShortFrom(s, p) ==
    IF p > Len(s) THEN None
    ELSE IF AmexDateEnds(s, p) # {} THEN Sub(s, p, Max(AmexDateEnds(s, p)))
    ELSE DateShortFrom(s, p + 1)

DateShort(s) == DateShortFrom(s, 1)

\* line 266: payment\s+due[:\s]*([A-Za-z0-9\/\-\s]+), then DATE_SHORT in it
RECURSIVE LooseDueDate(_)
LooseDueDate(L) ==
    IF Len(L) = 0 THEN None
    ELSE LET g == LabelValue(L[1], <<<<"p","a","y","m","e","n","t">>, <<"d","u","e">>>>, "loose")
         IN  IF g # None /\ DateShort(g) # None THEN DateShort(g)
             ELSE LooseDueDate(Tail(L))

HeaderLines == 200
ClosingLines == 60
DueLines == 120
RangeLines == 500

\* x if it is a match, else y (the else branch of an "if m:" chain)
OrElse(x, y) == IF x # None THEN x ELSE y

\* lines 138-144 and 162-167: total_due
AmexTotalDue(L, first) ==
    IF Falsy(first)
    THEN OrElse(AmexCleanAmount(
                    FirstLineValue(Take(L, DueLines), <<<<"n","e","w">>, <<"b","a","l","a","n","c","e">>>>, "money")),
                first)
    ELSE first

\* lines 102-167: the header fields, as the record the later code reads
AmexHeaderOf(L, header_block) ==
    [card_last4 |->
        IF LabelValue(header_block, <<<<"a","c","c","o","u","n","t">>, <<"e","n","d","i","n","g">>>>, "account") # None
        THEN AmexCardFromToken(
                 LabelValue(header_block, <<<<"a","c","c","o","u","n","t">>, <<"e","n","d","i","n","g">>>>, "account"))
        ELSE None,
     statement_date |->
        OrElse(LabelValue(header_block, <<<<"c","l","o","s","i","n","g">>, <<"d","a","t","e">>>>, "date"),
               FirstLineValue(Take(L, ClosingLines), <<<<"c","l","o","s","i","n","g">>, <<"d","a","t","e">>>>, "date")),
     due_date |->
        OrElse(LabelValue(header_block, <<<<"p","a","y","m","e","n","t">>, <<"d","u","e">>, <<"d","a","t","e">>>>, "date"),
               FirstLineValue(Take(L, DueLines), <<<<"p","a","y","m","e","n","t">>, <<"d","u","e">>, <<"d","a","t","e">>>>, "date")),
     total_due |->
        AmexTotalDue(L,
            AmexCleanAmount(
                OrElse(LabelValue(header_block, <<<<"n","e","w">>, <<"b","a","l","a","n","c","e">>>>, "money"),
                       LabelValue(header_block, <<<<"a","m","o","u","n","t">>, <<"d","u","e">>>>, "money")))),
     statement_period |->
        OrElse(DateRangeStart(header_block), DateRangeStart(JoinSp(Take(L, RangeLines)))),
     minimum_due |->
        AmexCleanAmount(
            LabelValue(header_block, <<<<"m","i","n","i","m","u","m">>, <<"a","m","o","u","n","t">>, <<"d","u","e">>>>, "money"))]

AmexHeaderFields(L) == AmexHeaderOf(L, JoinSp(Take(L, HeaderLines)))

\* _to_tuple (lines 288-293) as one integer that orders like (yy, mm, dd)
RECURSIVE NumVal(_)
NumVal(d) ==
    IF Len(d) = 0 THEN 0
    ELSE NumVal(Sub(d, 1, Len(d) - 1)) * 10
         + (CHOOSE v \in 0..9 : <<"0","1","2","3","4","5","6","7","8","9">>[v + 1] = d[Len(d)])

TwoDigitYearBase == 2000
DateKey(d) ==
    LET e1 == RunEnd(d, 1, Digits)
        e2 == RunEnd(d, e1 + 2, Digits)
        e3 == Max(AmexDateEnds(d, 1))
        mm == NumVal(Sub(d, 1, e1))
        dd == NumVal(Sub(d, e1 + 2, e2))
        y0 == NumVal(Sub(d, e2 + 2, e3))
        yy == IF y0 < 100 THEN y0 + TwoDigitYearBase ELSE y0
    IN  IF AmexDateEnds(d, 1) = {} THEN 9999 * 10000 + 9999 * 100 + 9999
        ELSE yy * 10000 + mm * 100 + dd

\* sorted(dates, key=_to_tuple)[0]: the first of the smallest (a stable sort)
EarliestDate(txs) ==
    LET k == Min({a \in 1..Len(txs) :
                    \A b \in 1..Len(txs) : DateKey(txs[a].date) <= DateKey(txs[b].date)})
    IN  txs[k].date

\* lines 255-299: the fallbacks that run after the scan
AmexLateCard(L) ==
    IF LabelValue(JoinSp(L), <<<<"a","c","c","o","u","n","t">>, <<"e","n","d","i","n","g">>>>, "account") # None
    THEN AmexCardFromToken(LabelValue(JoinSp(L), <<<<"a","c","c","o","u","n","t">>, <<"e","n","d","i","n","g">>>>, "account"))
    ELSE None

\* a faulty variant of the late fallbacks: the earliest transaction date
\* replaces a statement_period that the date range has supplied
AmexFinalFieldsOverwriting(L, h, txs) ==
    [h EXCEPT
     !.card_last4 = IF Falsy(@) THEN OrElse(AmexLateCard(L), @) ELSE @,
     !.due_date = IF Falsy(@) THEN OrElse(LooseDueDate(Take(L, HeaderLines)), @) ELSE @,
     !.statement_date =
        IF Falsy(@)
        THEN OrElse(FirstLineValue(Take(L, HeaderLines), <<<<"c","l","o","s","i","n","g">>, <<"d","a","t","e">>>>, "date"), @)
        ELSE @,
     !.statement_period = IF Len(txs) > 0 THEN EarliestDate(txs) ELSE @]

AmexFinalFields(L, h, txs) ==
    [h EXCEPT
     !.card_last4 = IF Falsy(@) THEN OrElse(AmexLateCard(L), @) ELSE @,
     !.due_date = IF Falsy(@) THEN OrElse(LooseDueDate(Take(L, HeaderLines)), @) ELSE @,
     !.statement_date =
        IF Falsy(@)
        THEN OrElse(FirstLineValue(Take(L, HeaderLines), <<<<"c","l","o","s","i","n","g">>, <<"d","a","t","e">>>>, "date"), @)
        ELSE @,
     !.statement_period = IF Falsy(@) /\ Len(txs) > 0 THEN EarliestDate(txs) ELSE @]

\* one iteration of the scan loop (lines 175-253) at 0-based cursor c:
\* the branch taken, the record appended (if any), the cursor afterwards and
\* the 0-based lines the record's date, description and amount came from
NoRec == [date |-> None, description |-> None, amount |-> None, credit |-> FALSE]
NoSrc == [date |-> -1, desc |-> -1, amt |-> -1]

\* a faulty variant of the multi-line branch: the date line is taken as the
\* description
AmexMultiLineDateAsDescription(L, c, d0, j, found) ==
    [shape |-> "date+desc+amount", emit |-> TRUE, next |-> c + j,
     rec |-> [date |-> d0.date, description |-> Strip(L[c + 1]),
              amount |-> IF found.ok THEN AmexCleanAmount(found.tok) ELSE None,
              credit |-> found.ok /\ AmexCredit(found.tok)],
     src |-> [date |-> c, desc |-> c + 1, amt |-> IF found.ok THEN c + j ELSE -1]]

\* shape 2 (lines 200-240): the date-only line d0 at c
AmexMultiLine(L, c, d0, j, found) ==
    IF found.ok THEN
        [shape |-> "date+desc+amount", emit |-> TRUE, next |-> c + j,
         rec |-> [date |-> d0.date, description |-> Strip(L[c + 2]),
                  amount |-> AmexCleanAmount(found.tok),
                  credit |-> AmexCredit(found.tok)],
         src |-> [date |-> c, desc |-> c + 1, amt |-> c + j]]
    ELSE
        [shape |-> "date+desc", emit |-> TRUE, next |-> c + 2,
         rec |-> [date |-> d0.date, description |-> Strip(L[c + 2]),
                  amount |-> None, credit |-> FALSE],
         src |-> [date |-> c, desc |-> c + 1, amt |-> -1]]

\* line 217: for j in range(2, 5), the first j whose line holds an amount
LookaheadFirst == 2
LookaheadLast == 4
RECURSIVE AmexLookahead(_, _, _, _)
AmexLookahead(L, c, d0, j) ==
    IF j > LookaheadLast THEN AmexMultiLine(L, c, d0, j, [ok |-> FALSE, tok |-> <<>>])
    ELSE IF c + j < Len(L) /\ AmountSearch(L[c + j + 1]).ok
         THEN AmexMultiLine(L, c, d0, j, AmountSearch(L[c + j + 1]))
         ELSE AmexLookahead(L, c, d0, j + 1)

AmexDateOnly(L, c, d0) ==
    IF c + 1 < Len(L) THEN
        IF AmountOnlyLine(L[c + 2]) THEN
            [shape |-> "date+amount", emit |-> TRUE, next |-> c + 2,
             rec |-> [date |-> d0.date, description |-> <<>>,
                      amount |-> AmexCleanAmount(L[c + 2]), credit |-> FALSE],
             src |-> [date |-> c, desc |-> -1, amt |-> c + 1]]
        ELSE AmexLookahead(L, c, d0, LookaheadFirst)
    ELSE
        [shape |-> "date", emit |-> TRUE, next |-> c + 1,
         rec |-> [date |-> d0.date, description |-> <<>>,
                  amount |-> None, credit |-> FALSE],
         src |-> [date |-> c, desc |-> -1, amt |-> -1]]

\* a faulty variant of the last branch: a line of no shape leaves the cursor
\* where it is
AmexLooseStalls(c, lm) ==
    IF lm.ok THEN
        [shape |-> "loose", emit |-> TRUE, next |-> c + 1,
         rec |-> [date |-> lm.date, description |-> Strip(lm.desc),
                  amount |-> AmexCleanAmount(lm.amt), credit |-> FALSE],
         src |-> [date |-> c, desc |-> c, amt |-> c]]
    ELSE
        [shape |-> "skip", emit |-> FALSE, next |-> c,
         rec |-> NoRec, src |-> NoSrc]

\* shape 3 (lines 244-251)
AmexLoose(c, lm) ==
    IF lm.ok THEN
        [shape |-> "loose", emit |-> TRUE, next |-> c + 1,
         rec |-> [date |-> lm.date, description |-> Strip(lm.desc),
                  amount |-> AmexCleanAmount(lm.amt), credit |-> FALSE],
         src |-> [date |-> c, desc |-> c, amt |-> c]]
    ELSE
        [shape |-> "skip", emit |-> FALSE, next |-> c + 1,
         rec |-> NoRec, src |-> NoSrc]

AmexNotSingle(L, c, d0) ==
    IF d0.ok THEN AmexDateOnly(L, c, d0) ELSE AmexLoose(c, LooseMatch(L[c + 1]))

\* shape 1 (lines 178-195)
AmexSingle(L, c, tx) ==
    IF tx.ok THEN
        [shape |-> "single", emit |-> TRUE, next |-> c + 1,
         rec |-> [date |-> tx.date, description |-> Strip(tx.desc),
                  amount |-> AmexCleanAmount(Strip(tx.amt)),
                  credit |-> AmexCredit(Strip(tx.amt))],
         src |-> [date |-> c, desc |-> c, amt |-> c]]
    ELSE AmexNotSingle(L, c, DateOnlyMatch(L[c + 1]))

AmexScanStep(L, c) == AmexSingle(L, c, TxLineMatch(L[c + 1]))

-----------------------------------------------------------------------------
(* Inputs of the American Express profile                                  *)

MaxLines == 3

Cat3(a, b, c) == a \o <<" ">> \o b \o <<" ">> \o c

\* tokens of the single-line shape: date tokens, descriptions and amount
\* tokens, each amount with its magnitude in cents and whether it is marked
\* negative (a minus sign or parentheses)
AmexDateToks == {<<"0","5","/","0","5","/","2","4">>, <<"5","/","1","5","/","2","0","2","4">>}
AmexDescToks == {<<"G","O","O","G","L","E","*","K","E","V","I","N"," ","S","E","R","V","I","C","E","S">>, <<"D","E","L","T","A"," ","2">>}
AmexAmtToks ==
    {[tok |-> <<"$","4",".","9","9">>,      cents |-> 499,    neg |-> FALSE],
     [tok |-> <<"1",",","7","5","8",".","6","3">>,   cents |-> 175863, neg |-> FALSE],
     [tok |-> <<"-","$","3",".","0","0">>,     cents |-> 300,    neg |-> TRUE],
     [tok |-> <<"(","3",",","4","8","1",".","7","2",")">>, cents |-> 348172, neg |-> TRUE],
     [tok |-> <<"$","1",",","7","5","8",".","6","3">>,  cents |-> 175863, neg |-> FALSE]}

AmexSingleLines ==
    {Cat3(<<"0","5","/","0","5","/","2","4">>, <<"G","O","O","G","L","E","*","K","E","V","I","N"," ","S","E","R","V","I","C","E","S">>, <<"$","4",".","9","9">>),
     Cat3(<<"0","5","/","0","5","/","2","4">>, <<"D","E","L","T","A"," ","2">>, <<"1",",","7","5","8",".","6","3">>),
     <<"5","/","1","5","/","2","0","2","4"," ","<bullet>">>
        \o <<"D","E","L","T","A"," ","2"," "," "," ","(","3",",","4","8","1",".","7","2",")"," ">>}
AmexDateOnlyLines == {<<"0","5","/","1","5","/","2","4">>, <<"0","4","/","1","9","/","2","4","*">>}
AmexDescLines == {<<"D","E","L","T","A"," ","A","I","R"," ","L","I","N","E","S"," ","A","T","L","A","N","T","A">>}
AmexAmountOnlyLines == {<<"$","1",",","7","5","8",".","6","3">>}
AmexHeaderPool ==
    {<<"A","c","c","o","u","n","t"," ","E","n","d","i","n","g"," ","9","-","7","7","0","0","2">>, <<"A","c","c","o","u","n","t"," ","E","n","d","i","n","g"," ","9","-","7","7">>,
     <<"N","e","w"," ","B","a","l","a","n","c","e"," ","$","4",",","0","5","3",".","6","1">>}

AmexRawPool ==
    AmexSingleLines \cup AmexDateOnlyLines \cup AmexDescLines
    \cup AmexAmountOnlyLines \cup AmexHeaderPool

SeqsUpTo(S, n) == UNION {[1..k -> S] : k \in 0..n}

\* documents of the multi-line shape: a date-only line, up to MaxFill lines
\* of description, and a closing line that holds an amount; the amounts
\* marked negative come with their magnitude in cents
MaxFill == 4
AmexFillLines == {<<"A","T","L","A","N","T","A">>}
AmexNegativeToks ==
    {[tok |-> <<"(","3",",","4","8","1",".","7","2",")">>, cents |-> 348172],
     [tok |-> <<"-","$","3",".","0","0">>,     cents |-> 300],
     [tok |-> <<"$","-","3",".","0","0">>,     cents |-> 300]}
AmexTailLines ==
    {a.tok : a \in AmexNegativeToks}
    \cup {<<"$","1",",","7","5","8",".","6","3">>, Cat3(<<"0","5","/","0","5","/","2","4">>, <<"D","E","L","T","A"," ","2">>, <<"$","4",".","9","9">>),
          Cat3(<<"0","5","/","0","5","/","2","4">>, <<"D","E","L","T","A"," ","2">>, <<"-","$","3",".","0","0">>)}
AmexLookaheadDocs ==
    {<<d>> \o fill \o <<a>> :
        d \in AmexDateOnlyLines, fill \in SeqsUpTo(AmexFillLines, MaxFill),
        a \in AmexTailLines}

\* documents made of balance lines only, among them amounts of zero
MaxHeaderLines == 2
AmexBalanceLines ==
    {<<"N","e","w"," ","B","a","l","a","n","c","e"," ","$","0",".","0","0">>, <<"N","e","w"," ","B","a","l","a","n","c","e"," ","$","4",",","0","5","3",".","6","1">>, <<"A","m","o","u","n","t"," ","D","u","e"," ","$","7",".","0","0">>,
     <<"M","i","n","i","m","u","m"," ","A","m","o","u","n","t"," ","D","u","e"," ","$","0",".","0","0">>}
AmexBalanceDocs == SeqsUpTo(AmexBalanceLines, MaxHeaderLines)

\* documents with a date range and a transaction dated before its start
AmexRangeLines ==
    {<<"0","6","/","0","1","/","2","4"," ","t","o"," ","0","6","/","3","0","/","2","4">>, Cat3(<<"0","5","/","0","5","/","2","4">>, <<"D","E","L","T","A"," ","2">>, <<"$","4",".","9","9">>),
     <<"P","a","y","m","e","n","t"," ","D","u","e"," ","D","a","t","e"," ","0","6","/","2","2","/","2","4">>}
AmexRangeDocs == SeqsUpTo(AmexRangeLines, MaxHeaderLines)

EmptyHdr ==
    [card_last4 |-> None, statement_date |-> None, statement_period |-> None,
     due_date |-> None, total_due |-> None, minimum_due |-> None]

NoDoc == [kind |-> "none"]
NoOutcome == [kind |-> "running"]
NoLast == [at |-> -1, shape |-> "none", emit |-> FALSE, next |-> 0]

-----------------------------------------------------------------------------
(* parse_amex as a state machine                                           *)

InitAmex ==
    /\ bank = "amex"
    /\ pc = "start"
    /\ raw \in SeqsUpTo(AmexRawPool, MaxLines) \cup AmexLookaheadDocs \cup AmexBalanceDocs
               \cup AmexRangeDocs
    /\ lines = <<>>
    /\ i = 0
    /\ hdr = EmptyHdr
    /\ transactions = <<>>
    /\ txsrc = <<>>
    /\ last = NoLast
    /\ visited = {}
    /\ doc = NoDoc
    /\ handles = <<>>
    /\ cursor = 0
    /\ outcome = NoOutcome

\* lines 90-91: _extract_text opens the document, reads every page, closes
\* the handle and normalizes the text; the line list is built from it
AmexExtract ==
    /\ bank = "amex" /\ pc = "start"
    /\ lines' = AmexLines(raw)
    /\ handles' = <<"closed">>
    /\ pc' = "header"
    /\ UNCHANGED <<bank, raw, i, hdr, transactions, txsrc, last, visited, doc, cursor, outcome>>

\* lines 93-173
AmexHeader ==
    /\ bank = "amex" /\ pc = "header"
    /\ hdr' = AmexHeaderFields(lines)
    /\ i' = 0
    /\ pc' = "scan"
    /\ UNCHANGED <<bank, raw, lines, transactions, txsrc, last, visited, doc, handles, cursor, outcome>>

\* lines 175-253: one iteration of the while loop, r its outcome
AmexScanApply(r) ==
    /\ transactions' = IF r.emit THEN Append(transactions, r.rec) ELSE transactions
    /\ txsrc' = IF r.emit THEN Append(txsrc, r.src) ELSE txsrc
    /\ i' = r.next
    /\ last' = [at |-> i, shape |-> r.shape, emit |-> r.emit, next |-> r.next]
    /\ visited' = visited \cup {i}

AmexScan ==
    /\ bank = "amex" /\ pc = "scan"
    /\ i < Len(lines)
    /\ AmexScanApply(AmexScanStep(lines, i))
    /\ UNCHANGED <<bank, pc, raw, lines, hdr, doc, handles, cursor, outcome>>

\* a faulty variant of the end of parse_amex: the records are returned sorted
\* by date, the sort that finds the earliest date applied to the list itself
RECURSIVE InsertByDate(_, _)
InsertByDate(sorted, r) ==
    IF sorted = <<>> THEN <<r>>
    ELSE IF DateKey(r.date) < DateKey(sorted[1].date) THEN <<r>> \o sorted
    ELSE <<sorted[1]>> \o InsertByDate(Tail(sorted), r)

RECURSIVE SortByDate(_)
SortByDate(t) ==
    IF t = <<>> THEN <<>>
    ELSE InsertByDate(SortByDate(SubSeq(t, 1, Len(t) - 1)), t[Len(t)])

AmexFinishSorted ==
    /\ bank = "amex" /\ pc = "scan"
    /\ i >= Len(lines)
    /\ hdr' = AmexFinalFields(lines, hdr, transactions)
    /\ outcome' = [kind |-> "record", error |-> FALSE, fields |-> hdr',
                   transactions |-> SortByDate(transactions)]
    /\ pc' = "done"
    /\ UNCHANGED <<bank, raw, lines, i, transactions, txsrc, last, visited, doc, handles, cursor>>

\* lines 255-311: the loop has ended; late fallbacks, then the result record
AmexFinish ==
    /\ bank = "amex" /\ pc = "scan"
    /\ i >= Len(lines)
    /\ hdr' = AmexFinalFields(lines, hdr, transactions)
    /\ outcome' = [kind |-> "record", error |-> FALSE, fields |-> hdr',
                   transactions |-> transactions]
    /\ pc' = "done"
    /\ UNCHANGED <<bank, raw, lines, i, transactions, txsrc, last, visited, doc, handles, cursor>>

NextAmex == AmexExtract \/ AmexHeader \/ AmexScan \/ AmexFinish

SpecAmex == InitAmex /\ [][NextAmex]_vars

-----------------------------------------------------------------------------
(* parse_icici. The text of the document is one string, "\n" between its   *)
(* lines.                                                                  *)

RECURSIVE JoinNl(_)
JoinNl(ss) ==
    IF Len(ss) = 0 THEN <<>>
    ELSE IF Len(ss) = 1 THEN ss[1]
    ELSE ss[1] \o <<"\n">> \o JoinNl(Tail(ss))

Reverse(s) == [k \in 1..Len(s) |-> s[Len(s) + 1 - k]]

\* re.sub(r'\s{2,}', ' ', s)
RECURSIVE SqueezeFrom(_, _)
SqueezeFrom(s, p) ==
    IF p > Len(s) THEN <<>>
    ELSE IF s[p] \in WS /\ RunEnd(s, p, WS) > p
         THEN <<" ">> \o SqueezeFrom(s, RunEnd(s, p, WS) + 1)
         ELSE <<s[p]>> \o SqueezeFrom(s, p + 1)

FourDigitsAt(T, p) ==
    p >= 1 /\ p + 3 <= Len(T) /\ \A k \in p..(p + 3) : T[k] \in Digits

\* X{2,}(\d{4}) matched at p: where the digit group starts, 0 when no match
MaskedDigitsAt(T, p) ==
    LET q == RunEnd(T, p, {"X"}) + 1
    IN  IF p >= 1 /\ q >= p + 2 /\ FourDigitsAt(T, q) THEN q ELSE 0

\* line 48: [:\s]*\*?(\d{4}) after a label alternative ending before e
\* (0: the alternative did not match): where the digit group starts
IciciLabelDigits(T, e) ==
    LET q  == RunEnd(T, e, LabelGap) + 1
        q2 == IF HasAt(T, q, <<"*">>) THEN q + 1 ELSE q
    IN  IF e # 0 /\ FourDigitsAt(T, q2) THEN q2 ELSE 0

\* line 48: Card(?:\s+Ending|(?:\s+No\.?)|(?:\s+Number)) ... at p, re.I
IciciCardLabelAt(T, p) ==
    LET alts == << <<<<"c","a","r","d">>, <<"e","n","d","i","n","g">>>>, <<<<"c","a","r","d">>, <<"n","o",".">>>>,
                   <<<<"c","a","r","d">>, <<"n","o">>>>, <<<<"c","a","r","d">>, <<"n","u","m","b","e","r">>>> >>
        hits == SelectSeq([k \in 1..4 |-> IciciLabelDigits(T, LabelEnd(T, p, alts[k]))],
                          LAMBDA x : x # 0)
    IN  IF hits = <<>> THEN 0 ELSE hits[1]

\* lines 37-50: the three card patterns in turn, each by its leftmost match
IciciCard(T) ==
    LET full     == {p \in 1..Len(T) : FourDigitsAt(T, p) /\ MaskedDigitsAt(T, p + 4) # 0}
        masked   == {p \in 1..Len(T) : MaskedDigitsAt(T, p) # 0}
        labelled == {p \in 1..Len(T) : Lower(T[p]) = "c" /\ IciciCardLabelAt(T, p) # 0}
        take(q)  == Sub(T, q, q + 3)
    IN  IF full # {} THEN take(MaskedDigitsAt(T, Min(full) + 4))
        ELSE IF masked # {} THEN take(MaskedDigitsAt(T, Min(masked)))
        ELSE IF labelled # {} THEN take(IciciCardLabelAt(T, Min(labelled)))
        ELSE None

\* [A-Za-z0-9 ,\/\-] of lines 54, 59, 71, 75 and [A-Za-z0-9 ,\-to] of line 65
IciciDateChars == Letters \cup Digits \cup {" ", ",", "/", "-"}
IciciPeriodChars == Letters \cup Digits \cup {" ", ",", "-"}

\* a group [cls]+ that follows a greedy \s* covering lo..r starts at the last
\* position of lo..r+1 holding a character of cls (the \s* gives characters
\* back until the group can start); 0 when there is none
GroupStartAfter(T, lo, r, cls) ==
    LET C == {q \in lo..(r + 1) : q <= Len(T) /\ T[q] \in cls}
    IN  IF C = {} THEN 0 ELSE Max(C)

\* label \s*\n\s*([cls]+) at p (below = TRUE) or label \s*[:\-]\s*([cls]+)
\* at p (below = FALSE): where the group starts, 0 when no match
IciciTextAt(T, p, words, cls, below) ==
    LET e  == LabelEnd(T, p, words)
        r  == RunEnd(T, e, WS)
        nl == {k \in e..r : T[k] = "\n"}
    IN  IF e = 0 THEN 0
        ELSE IF below
             THEN IF nl = {} THEN 0 ELSE GroupStartAfter(T, Min(nl) + 1, r, cls)
             ELSE IF r + 1 <= Len(T) /\ T[r + 1] \in {":", "-"}
                  THEN GroupStartAfter(T, r + 2, RunEnd(T, r + 2, WS), cls)
                  ELSE 0

\* re.search(...).group(1).strip() for the leftmost match, None without one
IciciText(T, words, cls, below) ==
    LET hits == {p \in 1..Len(T) :
                    Lower(T[p]) = words[1][1] /\ IciciTextAt(T, p, words, cls, below) # 0}
        q    == IciciTextAt(T, Min(hits), words, cls, below)
    IN  IF hits = {} THEN None ELSE Strip(Sub(T, q, RunEnd(T, q, cls)))

\* _clean_amount, lines 6-10
IciciCleanAmount(s) ==
    IF Falsy(s) THEN None
    ELSE Strip(DropChars(Replace(DropChars(s, {"<backtick>", "<rupee>"}), <<"R", "s">>, <<>>),
                         {","}))

\* [<backtick><rupee>Rs\$\s] under re.I
IciciCurrency == {"<backtick>", "<rupee>", "R", "r", "S", "s", "$"} \cup WS

\* lines 82, 86, 90, 94: label \s*\n\s*[<backtick><rupee>Rs\$\s]*([0-9,]+\.\d{2}) at p
\* (below = TRUE) or label [:\s\-]*[<backtick><rupee>Rs\$\s]*([0-9,]+\.\d{2}) at p
IciciAmountAt(T, p, words, below) ==
    LET e   == LabelEnd(T, p, words)
        gap == IF below THEN e - 1 ELSE RunEnd(T, e, WS \cup {":", "-"})
        b   == RunEnd(T, gap + 1, IciciCurrency) + 1
    IN  IF e = 0 \/ (below /\ \A k \in e..RunEnd(T, e, WS) : T[k] # "\n") THEN NoGroup
        ELSE MoneyGroupFrom(T, b, RunEnd(T, b, DigitsComma))

IciciAmount(T, words, below) ==
    LET hits == {p \in 1..Len(T) :
                    Lower(T[p]) = words[1][1] /\ IciciAmountAt(T, p, words, below) # NoGroup}
    IN  IF hits = {} THEN None
        ELSE IciciCleanAmount(GroupText(T, IciciAmountAt(T, Min(hits), words, below)))

\* lines 37-96
IciciHeaderFields(T) ==
    [card_last4 |-> IciciCard(T),
     statement_date |->
        OrElse(IciciText(T, <<<<"s","t","a","t","e","m","e","n","t">>, <<"d","a","t","e">>>>, IciciDateChars, TRUE),
               IciciText(T, <<<<"s","t","a","t","e","m","e","n","t">>, <<"d","a","t","e">>>>, IciciDateChars, FALSE)),
     statement_period |->
        IciciText(T, <<<<"s","t","a","t","e","m","e","n","t">>, <<"p","e","r","i","o","d">>>>, IciciPeriodChars, FALSE),
     due_date |->
        OrElse(IciciText(T, <<<<"p","a","y","m","e","n","t">>, <<"d","u","e">>, <<"d","a","t","e">>>>, IciciDateChars, TRUE),
               IciciText(T, <<<<"p","a","y","m","e","n","t">>, <<"d","u","e">>, <<"d","a","t","e">>>>, IciciDateChars, FALSE)),
     total_due |->
        OrElse(IciciAmount(T, <<<<"t","o","t","a","l">>, <<"a","m","o","u","n","t">>, <<"d","u","e">>>>, TRUE),
               IciciAmount(T, <<<<"t","o","t","a","l">>, <<"a","m","o","u","n","t">>, <<"d","u","e">>>>, FALSE)),
     minimum_due |->
        OrElse(IciciAmount(T, <<<<"m","i","n","i","m","u","m">>, <<"a","m","o","u","n","t">>, <<"d","u","e">>>>, TRUE),
               IciciAmount(T, <<<<"m","i","n","i","m","u","m">>, <<"a","m","o","u","n","t">>, <<"d","u","e">>>>, FALSE))]

\* line 101: ^\s*(\d{2}/\d{2}/\d{4}) on a stripped line
IciciDateAt(s) ==
    /\ Len(s) >= 10
    /\ \A k \in {1, 2, 4, 5, 7, 8, 9, 10} : s[k] \in Digits
    /\ s[3] = "/" /\ s[6] = "/"

\* ([0-9,]+\.\d{2}) matched at p: the group, NoGroup when no match
IciciAmountGroupAt(s, p) == MoneyGroupFrom(s, p, RunEnd(s, p, DigitsComma))

\* line 102: (?:\s*CR)?\s*$ from position t on
IciciTailFits(s, t) ==
    LET u == RunEnd(s, t, WS) + 1
    IN  u > Len(s) \/ (HasAt(s, u, <<"C", "R">>) /\ RunEnd(s, u + 2, WS) = Len(s))

\* the leftmost match of ([0-9,]+\.\d{2}), with (anchored) or without the
\* tail (?:\s*CR)?\s*$ of amount_re
IciciAmountSearch(s, anchored) ==
    LET hits == {p \in 1..Len(s) :
                    /\ IciciAmountGroupAt(s, p) # NoGroup
                    /\ (anchored => IciciTailFits(s, IciciAmountGroupAt(s, p)[2] + 1))}
    IN  IF hits = {} THEN NoGroup ELSE IciciAmountGroupAt(s, Min(hits))

\* lines 121 and 150: re.search(r'\bCR\b', ln_strip)
IciciWordCR(s) ==
    \E p \in 1..Len(s) :
        /\ HasAt(s, p, <<"C", "R">>)
        /\ (p = 1 \/ s[p - 1] \notin WordChars)
        /\ (p + 2 > Len(s) \/ s[p + 2] \notin WordChars)

\* lines 126, 128 and 130: the three removals of the description cleanup
IciciDropDate(s) == Sub(s, RunEnd(s, 11, WS) + 1, Len(s))
IciciDropAmount(d) ==
    IF IciciAmountSearch(d, TRUE) = NoGroup THEN d
    ELSE Sub(d, 1, IciciAmountSearch(d, TRUE)[1] - 1)
IciciDropSerial(d) ==
    IF RunEnd(d, 1, Digits) < 1 THEN d
    ELSE Sub(d, RunEnd(d, RunEnd(d, 1, Digits) + 1, WS) + 1, Len(d))

\* lines 119-138: the record of a line whose trailing amount is g
IciciTrailRecord(s, g) ==
    [date |-> Sub(s, 1, 10),
     description |->
        Strip(SqueezeFrom(IciciDropSerial(Strip(IciciDropAmount(IciciDropDate(s)))), 1)),
     amount |-> IciciCleanAmount(GroupText(s, g)),
     credit |-> IciciWordCR(s)]

\* lines 141-151: the record of a line with an amount that is not trailing
IciciInnerRecord(s, g) ==
    [date |-> Sub(s, 1, 10),
     description |-> Strip(IciciDropSerial(IciciDropDate(s))),
     amount |-> IciciCleanAmount(GroupText(s, g)),
     credit |-> IciciWordCR(s)]

\* lines 103-151: the loop body on one line: whether a record is appended
IciciScanLine(s) ==
    IF s = <<>> \/ ~IciciDateAt(s) THEN [emit |-> FALSE, rec |-> NoRec]
    ELSE IF IciciAmountSearch(s, TRUE) # NoGroup
         THEN [emit |-> TRUE, rec |-> IciciTrailRecord(s, IciciAmountSearch(s, TRUE))]
    ELSE IF IciciAmountSearch(Reverse(s), FALSE) = NoGroup
         THEN [emit |-> FALSE, rec |-> NoRec]
    ELSE IF IciciAmountSearch(s, FALSE) # NoGroup
         THEN [emit |-> TRUE, rec |-> IciciInnerRecord(s, IciciAmountSearch(s, FALSE))]
    ELSE [emit |-> FALSE, rec |-> NoRec]

\* line 154
TxCap == 1000

\* a faulty variant of the cap: the last TxCap records are kept
IciciCappedLast(t) ==
    IF Len(t) > TxCap THEN SubSeq(t, Len(t) - TxCap + 1, Len(t)) ELSE t

\* lines 153-155: transactions[:1000] when there are more than 1000
IciciCapped(t) == IF Len(t) > TxCap THEN SubSeq(t, 1, TxCap) ELSE t

-----------------------------------------------------------------------------
(* Inputs of the ICICI profile: a document is an optional card line, some  *)
(* of the four header lines and then up to MaxIciciTx further lines        *)

MaxIciciTx == 2

IciciCardLines ==
    {<<"C","a","r","d"," ","N","o",":"," ","4","3","7","5","X","X","X","X","X","X","X","X","4","0","0","6">>, <<"X","X","X","X"," ","X","X","X","X"," ","X","X","X","X"," ","4","0","0","6">>, <<"C","a","r","d"," ","E","n","d","i","n","g"," ","4","0","0","6">>}

\* the header lines of a statement with the value each one states
IciciHeaderShapes ==
    <<[line |-> <<"S","t","a","t","e","m","e","n","t"," ","D","a","t","e",":"," ","2","2","/","0","6","/","2","0","2","4">>,   value |-> <<"2","2","/","0","6","/","2","0","2","4">>],
      [line |-> <<"P","a","y","m","e","n","t"," ","D","u","e"," ","D","a","t","e",":"," ","1","0","/","0","7","/","2","0","2","4">>, value |-> <<"1","0","/","0","7","/","2","0","2","4">>],
      [line |-> <<"T","o","t","a","l"," ","A","m","o","u","n","t"," ","d","u","e"," ","1","2",",","3","4","5",".","6","7">>,   value |-> <<"1","2","3","4","5",".","6","7">>],
      [line |-> <<"M","i","n","i","m","u","m"," ","A","m","o","u","n","t"," ","d","u","e"," ","1",",","2","0","0",".","0","0">>,  value |-> <<"1","2","0","0",".","0","0">>]>>

\* transaction lines "<date> <description> <amount>" by their three tokens
IciciDateToks == {<<"1","5","/","0","6","/","2","0","2","4">>}
IciciDescToks == {<<"A","M","A","Z","O","N"," ","P","A","Y">>, <<"C","R"," ","V","O","U","C","H","E","R">>}
IciciAmtToks ==
    {[tok |-> <<"5","0","0",".","0","0">>, value |-> <<"5","0","0",".","0","0">>],
     [tok |-> <<",",".","5","0">>,   value |-> <<"0",".","5","0">>]}

IciciTxPool ==
    {Cat3(d, x, a.tok) : d \in IciciDateToks, x \in IciciDescToks, a \in IciciAmtToks}
    \cup {<<"1","6","/","0","6","/","2","0","2","4"," ","4","5","6","6","6","9","0","2","9","0"," ","R","E","F","U","N","D"," "," ","1",",","2","0","0",".","0","0"," ","C","R">>, <<"S","T","A","T","E","M","E","N","T"," ","D","A","T","E">>,
          <<"J","u","n","e"," ","2","2",","," ","2","0","2","4">>, <<"1","7","/","0","6","/","2","0","2","4"," ","7","E","L","E","V","E","N"," ","S","T","O","R","E"," ","9",".","0","0">>}

\* the lines of IciciHeaderShapes picked by a set of indices, in order
HeaderPick(S) ==
    SelectSeq([k \in 1..4 |-> IF k \in S THEN IciciHeaderShapes[k].line ELSE <<>>],
              LAMBDA l : l # <<>>)

IciciDocs ==
    {c \o HeaderPick(S) \o t :
        c \in {<<>>} \cup {<<l>> : l \in IciciCardLines},
        S \in {{}, {1, 2}, {3, 4}, {1, 2, 3}, {1, 2, 3, 4}},
        t \in SeqsUpTo(IciciTxPool, MaxIciciTx)}

\* documents made of amount lines only, among them amounts of zero
IciciBalanceLines ==
    {<<"T","o","t","a","l"," ","A","m","o","u","n","t"," ","d","u","e"," ","0",".","0","0">>, <<"T","o","t","a","l"," ","A","m","o","u","n","t"," ","d","u","e"," ","1","2",",","3","4","5",".","6","7">>,
     <<"M","i","n","i","m","u","m"," ","A","m","o","u","n","t"," ","d","u","e"," ","0",".","0","0">>, <<"M","i","n","i","m","u","m"," ","A","m","o","u","n","t"," ","d","u","e"," ","0","0",".","0","0">>}
IciciBalanceDocs == SeqsUpTo(IciciBalanceLines, MaxHeaderLines)

-----------------------------------------------------------------------------
(* parse_icici as a state machine                                          *)

InitIcici ==
    /\ bank = "icici"
    /\ pc = "start"
    /\ raw \in IciciDocs \cup IciciBalanceDocs
    /\ lines = <<>>
    /\ i = 0
    /\ hdr = EmptyHdr
    /\ transactions = <<>>
    /\ txsrc = <<>>
    /\ last = NoLast
    /\ visited = {}
    /\ doc = NoDoc
    /\ handles = <<>>
    /\ cursor = 0
    /\ outcome = NoOutcome

\* lines 27-35 and 100: extract_text_pymupdf opens the document, reads the
\* pages and closes the handle; text_norm is split into lines
IciciExtract ==
    /\ bank = "icici" /\ pc = "start"
    /\ lines' = [k \in 1..Len(raw) |-> CollapseSpaces(raw[k])]
    /\ handles' = <<"closed">>
    /\ pc' = "header"
    /\ UNCHANGED <<bank, raw, i, hdr, transactions, txsrc, last, visited, doc, cursor, outcome>>

\* lines 37-96, on the text as extracted
IciciHeader ==
    /\ bank = "icici" /\ pc = "header"
    /\ hdr' = IciciHeaderFields(JoinNl(raw))
    /\ i' = 0
    /\ pc' = "scan"
    /\ UNCHANGED <<bank, raw, lines, transactions, txsrc, last, visited, doc, handles, cursor, outcome>>

\* lines 103-151: one iteration of the for loop, r its outcome
IciciScanApply(r) ==
    /\ transactions' = IF r.emit THEN Append(transactions, r.rec) ELSE transactions
    /\ txsrc' = IF r.emit THEN Append(txsrc, [date |-> i, desc |-> i, amt |-> i]) ELSE txsrc
    /\ i' = i + 1
    /\ last' = [at |-> i, shape |-> IF r.emit THEN "single" ELSE "skip",
                emit |-> r.emit, next |-> i + 1]
    /\ visited' = visited \cup {i}

IciciScan ==
    /\ bank = "icici" /\ pc = "scan"
    /\ i < Len(lines)
    /\ IciciScanApply(IciciScanLine(Strip(lines[i + 1])))
    /\ UNCHANGED <<bank, pc, raw, lines, hdr, doc, handles, cursor, outcome>>

\* lines 154-166
IciciFinish ==
    /\ bank = "icici" /\ pc = "scan"
    /\ i >= Len(lines)
    /\ outcome' = [kind |-> "record", error |-> FALSE, fields |-> hdr,
                   transactions |-> IciciCapped(transactions)]
    /\ pc' = "done"
    /\ UNCHANGED <<bank, raw, lines, i, hdr, transactions, txsrc, last, visited, doc, handles, cursor>>

\* Long documents, by the line numbers of their records. A document has
\* doc.n lines; with doc.gap = 0 every line is a transaction line, else the
\* lines whose number is a multiple of doc.gap are not. The record of a line
\* is represented by the number of the line
MaxOver == 2
LongDocs ==
    {[kind |-> "long", n |-> n, gap |-> g] :
        n \in (TxCap - 1)..(TxCap + MaxOver), g \in {0, 3}}

Recognized(j) == doc.gap = 0 \/ j % doc.gap # 0

InitIciciLong ==
    /\ bank = "icici"
    /\ pc = "scan"
    /\ doc \in LongDocs
    /\ i = 0
    /\ transactions = <<>>
    /\ hdr = EmptyHdr
    /\ raw = <<>>
    /\ lines = <<>>
    /\ txsrc = <<>>
    /\ last = NoLast
    /\ visited = {}
    /\ handles = <<"closed">>
    /\ cursor = 0
    /\ outcome = NoOutcome

\* lines 103-151 on line i + 1 of a long document: a record is appended when
\* the line is a transaction line
IciciLongScan ==
    /\ bank = "icici" /\ pc = "scan"
    /\ i < doc.n
    /\ transactions' = IF Recognized(i + 1) THEN Append(transactions, i + 1)
                       ELSE transactions
    /\ i' = i + 1
    /\ UNCHANGED <<bank, pc, raw, lines, hdr, txsrc, last, visited, doc, handles, cursor,
                   outcome>>

\* lines 153-166
IciciLongFinish ==
    /\ bank = "icici" /\ pc = "scan"
    /\ i >= doc.n
    /\ outcome' = [kind |-> "record", error |-> FALSE, fields |-> hdr,
                   transactions |-> IciciCapped(transactions)]
    /\ pc' = "done"
    /\ UNCHANGED <<bank, raw, lines, i, hdr, transactions, txsrc, last, visited, doc, handles,
                   cursor>>

NextIciciLong == IciciLongScan \/ IciciLongFinish

SpecIciciLong == InitIciciLong /\ [][NextIciciLong]_vars

NextIcici == IciciExtract \/ IciciHeader \/ IciciScan \/ IciciFinish

SpecIcici == InitIcici /\ [][NextIcici]_vars

-----------------------------------------------------------------------------
(* parse_kotak                                                             *)

\* lit in s
Contains(s, lit) == \E p \in 1..Len(s) : HasAt(s, p, lit)

In(s, p, cls) == p >= 1 /\ p <= Len(s) /\ s[p] \in cls

\* re.search(r'(\d{4})\s*$', ln).group(1), None when there is no match
EndDigits(ln) ==
    LET e == RunStart(ln, Len(ln), WS) - 1
    IN  IF FourDigitsAt(ln, e - 3) THEN Sub(ln, e - 3, e) ELSE None

\* _norm_amount, lines 12-27
KotakNormAmount(tok) ==
    LET s  == Strip(DropChars(Replace(Replace(DropChars(tok, {"<rupee>"}),
                                              <<"R", "s", ".">>, <<>>),
                                      <<"R", "s">>, <<>>), {","}))
        s2 == SelectSeq(s, LAMBDA c : c \in DigitsDot)
    IN  IF tok = None THEN None
        ELSE IF FloatOK(s)
             THEN (IF FloatNegative(s) THEN <<"-">> ELSE <<>>) \o Fmt2Abs(s)
        ELSE IF s2 # <<>> /\ FloatOK(s2) THEN Fmt2Abs(s2)
        ELSE None

\* float(x) of a normalized amount, in cents: the sort key of line 211
CentsOf(a) ==
    NumVal(SubSeq(a, 1, Len(a) - 3)) * 100 + NumVal(SubSeq(a, Len(a) - 1, Len(a)))

\* (?:,[0-9]{3})* from q + 1 on: the position of its last character
RECURSIVE ThousandsEnd(_, _)
ThousandsEnd(s, q) ==
    IF HasAt(s, q + 1, <<",">>) /\ \A k \in 2..4 : In(s, q + k, Digits)
    THEN ThousandsEnd(s, q + 4) ELSE q

\* AMOUNT_RE.search(s).group(2), line 10: the leftmost match puts group 2 at
\* the first digit of s; None when s has no digit
GroupedAmountToken(s) ==
    LET ds == {p \in 1..Len(s) : s[p] \in Digits}
        d  == Min(ds)
        q1 == IF RunEnd(s, d, Digits) > d + 2 THEN d + 2 ELSE RunEnd(s, d, Digits)
        q2 == ThousandsEnd(s, q1)
        q3 == IF HasAt(s, q2 + 1, <<".">>) /\ In(s, q2 + 2, Digits) /\ In(s, q2 + 3, Digits)
              THEN q2 + 3 ELSE q2
    IN  IF ds = {} THEN None ELSE Sub(s, d, q3)

\* DATE_RE1 (line 7) and DATE_RE2 (line 8) matched at p: the position of the
\* last character, 0 when no match
KotakDate1At(s, p) ==
    IF /\ \A k \in {0, 1, 3, 4, 6, 7, 8, 9} : In(s, p + k, Digits)
       /\ In(s, p + 2, DateSeps) /\ In(s, p + 5, DateSeps)
    THEN p + 9 ELSE 0

KotakDate2At(s, p) ==
    LET d  == IF In(s, p + 1, Digits) THEN p + 1 ELSE p
        w1 == RunEnd(s, d + 1, WS)
        l  == RunEnd(s, w1 + 1, Letters)
        w2 == RunEnd(s, l + 1, WS)
    IN  IF /\ In(s, p, Digits) /\ w1 >= d + 1 /\ l >= w1 + 3 /\ w2 >= l + 1
           /\ FourDigitsAt(s, w2 + 1)
        THEN w2 + 4 ELSE 0

\* DATE_RE1.search(s) or DATE_RE2.search(s), group 1; None without a match
KotakDateIn(s) ==
    LET h1 == {p \in 1..Len(s) : KotakDate1At(s, p) # 0}
        h2 == {p \in 1..Len(s) : KotakDate2At(s, p) # 0}
    IN  IF h1 # {} THEN Sub(s, Min(h1), KotakDate1At(s, Min(h1)))
        ELSE IF h2 # {} THEN Sub(s, Min(h2), KotakDate2At(s, Min(h2)))
        ELSE None

\* a faulty variant of the visiting order: the lines before the label first
NearbyOrderBackFirst(n, idx, forward, back) ==
    <<idx>>
    \o SelectSeq([k \in 1..back |-> idx - k], LAMBDA j : j >= 1)
    \o SelectSeq([k \in 1..forward |-> idx + k], LAMBDA j : j <= n)

\* lines 37-48: the line numbers (1-based) _find_nearby_value visits, in order
NearbyOrder(n, idx, forward, back) ==
    <<idx>>
    \o SelectSeq([k \in 1..forward |-> idx + k], LAMBDA j : j <= n)
    \o SelectSeq([k \in 1..back |-> idx - k], LAMBDA j : j >= 1)

\* _find_nearby_value, lines 29-66
KotakFindNearby(L, idx, value_type, forward, back) ==
    LET order == NearbyOrder(Len(L), idx, forward, back)
        found == [k \in 1..Len(order) |->
                    IF Strip(L[order[k]]) = <<>> THEN None
                    ELSE IF value_type = "amount"
                         THEN KotakNormAmount(GroupedAmountToken(Strip(L[order[k]])))
                         ELSE KotakDateIn(Strip(L[order[k]]))]
        hits  == SelectSeq(found, LAMBDA v : v # None)
    IN  IF hits = <<>> THEN None ELSE hits[1]

\* lines 97-112: the card number on a 'primary card number' line or on one of
\* the three lines after it
KotakCardAt(L, k) ==
    LET near == {j \in 1..3 : k + j <= Len(L) /\ EndDigits(L[k + j]) # None}
    IN  IF EndDigits(L[k]) # None THEN EndDigits(L[k])
        ELSE IF near # {} THEN EndDigits(L[k + Min(near)])
        ELSE None

\* the first of the first `top` lines of L holding one of the phrases, 0 if none
LabelIndex(L, top, phrases) ==
    LET hits == {k \in 1..Len(Take(L, top)) :
                    \E v \in phrases : Contains(LowerStr(L[k]), v)}
    IN  IF hits = {} THEN 0 ELSE Min(hits)

CardRegion == 200
LabelRegion == 260

\* lines 96-119
KotakCard(L) ==
    LET labelled == {k \in 1..Len(L) :
                        /\ Contains(LowerStr(L[k]), <<"p","r","i","m","a","r","y"," ","c","a","r","d"," ","n","u","m","b","e","r">>)
                        /\ KotakCardAt(L, k) # None}
        masked   == {k \in 1..Len(Take(L, CardRegion)) :
                        \E p \in 1..Len(L[k]) : MaskedDigitsAt(L[k], p) # 0}
        ln       == L[Min(masked)]
        q        == MaskedDigitsAt(ln, Min({p \in 1..Len(ln) : MaskedDigitsAt(ln, p) # 0}))
    IN  IF labelled # {} THEN KotakCardAt(L, Min(labelled))
        ELSE IF masked # {} THEN Sub(ln, q, q + 3)
        ELSE None

\* lines 122-132: only the first 'statement date' line is tried. The else
\* branch of lines 127-131 searches the label line again after
\* _find_nearby_value found no date in it, so it never finds one
KotakStatementDate(L) ==
    LET k == LabelIndex(L, CardRegion, {<<"s","t","a","t","e","m","e","n","t"," ","d","a","t","e">>})
    IN  IF k = 0 THEN None ELSE KotakFindNearby(L, k, "date", 3, 2)

\* DATE_RANGE_RE (line 9) after its first group: \s*(?:to|-)\s*, then
\* \d{1,2}[\/\-] and one character of the lazy second group, from q on
RangeChars == Letters \cup Digits \cup {"-", "/"}
RangeCharsMax == 30
KotakRangeRest(T, q) ==
    LET w == RunEnd(T, q, WS) + 1
        s == IF HasAtI(T, w, <<"t", "o">>) THEN w + 2
             ELSE IF HasAt(T, w, <<"-">>) THEN w + 1 ELSE 0
        b == RunEnd(T, s, WS) + 1
        d == IF In(T, b + 1, Digits) THEN b + 1 ELSE b
    IN  /\ s # 0 /\ In(T, b, Digits) /\ In(T, d + 1, DateSeps) /\ In(T, d + 2, RangeChars)

\* DATE_RANGE_RE matched at p: the last position of group 1 (which starts
\* after 'from' and its white space), 0 when no match
KotakRangeAt(T, p) ==
    LET a  == RunEnd(T, p + 4, WS) + 1
        c  == IF In(T, a + 1, Digits) THEN a + 2 ELSE a + 1
        ns == {n \in 1..RangeCharsMax :
                 /\ \A k \in 1..n : In(T, c + k, RangeChars)
                 /\ KotakRangeRest(T, c + n + 1)}
    IN  IF /\ HasAtI(T, p, <<"f","r","o","m">>) /\ a > p + 4
           /\ In(T, a, Digits) /\ In(T, c, DateSeps) /\ ns # {}
        THEN c + Min(ns) ELSE 0

\* lines 136-149
KotakPeriod(L, T) ==
    LET hits  == {p \in 1..Len(T) : Lower(T[p]) = "f" /\ KotakRangeAt(T, p) # 0}
        a     == RunEnd(T, Min(hits) + 4, WS) + 1
        lhits == {k \in 1..Len(L) :
                    /\ Contains(LowerStr(L[k]), <<"d","a","t","e"," ","t","r","a","n","s","a","c","t","i","o","n"," ","d","e","t","a","i","l","s">>)
                    /\ (Contains(LowerStr(L[k]), <<"t","o">>) \/ Contains(L[k], <<"-">>))
                    /\ KotakDateIn(L[k]) # None}
    IN  IF hits # {} THEN Strip(Sub(T, a, KotakRangeAt(T, Min(hits))))
        ELSE IF lhits # {} THEN KotakDateIn(L[Min(lhits)])
        ELSE None

\* lines 190 and 194: label[^\d\n\r]*([0-9,]+\.\d{2}) on the header region,
\* re.I: the greedy gap gives commas back until the group can start
KotakLabelAmount(T, label) ==
    LET at(p) ==
            LET e == p + Len(label)
                r == RunEnd(T, e, {T[k] : k \in 1..Len(T)} \ (Digits \cup {"\n"}))
                C == {q \in e..(r + 1) :
                        MoneyGroupFrom(T, q, RunEnd(T, q, DigitsComma)) # NoGroup}
            IN  IF HasAtI(T, p, label) /\ C # {}
                THEN MoneyGroupFrom(T, Max(C), RunEnd(T, Max(C), DigitsComma))
                ELSE NoGroup
        hits == {p \in 1..Len(T) : at(p) # NoGroup}
    IN  IF hits = {} THEN None ELSE KotakNormAmount(GroupText(T, at(Min(hits))))

\* lines 199-217: the distinct amounts of the header lines, sorted as numbers;
\* the smallest for a missing minimum, the second smallest for a missing total
KotakHeuristic(L, total, minimum) ==
    LET vals == {KotakNormAmount(GroupedAmountToken(L[k])) : k \in 1..Len(Take(L, LabelRegion))}
                \ {None}
        nth(S) == CHOOSE v \in S : \A w \in S : CentsOf(v) <= CentsOf(w)
        fs1  == nth(vals)
        fs2  == nth(vals \ {fs1})
    IN  [total_due   |-> IF Falsy(total) /\ Cardinality(vals) > 1 THEN fs2 ELSE total,
         minimum_due |-> IF Falsy(minimum) /\ vals # {} THEN fs1 ELSE minimum]

\* lines 152-196: the labelled values and the two pattern fallbacks. The loop
\* of lines 176-185 searches lines that _find_nearby_value (forward = 5) has
\* searched already with the same two patterns, so it never finds a date
KotakLabelled(L, T) ==
    LET imin == LabelIndex(L, LabelRegion, {<<"m","i","n","i","m","u","m"," ","a","m","o","u","n","t">>, <<"m","i","n","i","m","u","m"," ","d","u","e">>})
        itot == LabelIndex(L, LabelRegion, {<<"t","o","t","a","l"," ","a","m","o","u","n","t">>, <<"t","o","t","a","l"," ","d","u","e","s">>})
        irem == LabelIndex(L, LabelRegion, {<<"r","e","m","e","m","b","e","r"," ","t","o"," ","p","a","y">>, <<"p","a","y"," ","b","y">>})
        minimum == IF imin = 0 THEN None ELSE KotakFindNearby(L, imin, "amount", 4, 2)
        total   == IF itot = 0 THEN None ELSE KotakFindNearby(L, itot, "amount", 4, 2)
    IN  [due_date    |-> IF irem = 0 THEN None ELSE KotakFindNearby(L, irem, "date", 5, 2),
         total_due   |-> IF Falsy(total) THEN KotakLabelAmount(T, <<"T","o","t","a","l"," ","A","m","o","u","n","t"," ","D","u","e">>)
                         ELSE total,
         minimum_due |-> IF Falsy(minimum) THEN KotakLabelAmount(T, <<"M","i","n","i","m","u","m"," ","A","m","o","u","n","t"," ","D","u","e">>)
                         ELSE minimum]

\* lines 89-217; L the line list, C the lines before rstrip (text_all)
KotakHeaderOf(L, C, lab) ==
    [card_last4 |-> KotakCard(L),
     statement_date |-> KotakStatementDate(L),
     statement_period |-> KotakPeriod(L, JoinNl(C)),
     due_date |-> lab.due_date,
     total_due |-> KotakHeuristic(L, lab.total_due, lab.minimum_due).total_due,
     minimum_due |-> KotakHeuristic(L, lab.total_due, lab.minimum_due).minimum_due]

KotakHeaderFields(L, C) ==
    KotakHeaderOf(L, C, KotakLabelled(L, JoinNl(Take(L, LabelRegion))))

\* line 230: ([0-9,]+\.\d{2})\s*(Cr)?\s*$ under re.I, leftmost match:
\* the amount group and whether group 2 took part
KotakTrailAmount(s) ==
    LET tail(t) ==
            LET u == RunEnd(s, t, WS) + 1
            IN  IF u > Len(s) THEN "plain"
                ELSE IF HasAtI(s, u, <<"c", "r">>) /\ RunEnd(s, u + 2, WS) = Len(s)
                     THEN "cr" ELSE "none"
        hits == {p \in 1..Len(s) :
                    /\ IciciAmountGroupAt(s, p) # NoGroup
                    /\ tail(IciciAmountGroupAt(s, p)[2] + 1) # "none"}
        g    == IciciAmountGroupAt(s, Min(hits))
    IN  IF hits = {} THEN [ok |-> FALSE, g |-> NoGroup, cr |-> FALSE]
        ELSE [ok |-> TRUE, g |-> g, cr |-> tail(g[2] + 1) = "cr"]

\* lines 222-242: the loop body on one stripped line
KotakScanLine(s) ==
    LET m == KotakTrailAmount(s)
        d == Sub(s, RunEnd(s, 11, WS) + 1, Len(s))
        x == IF KotakTrailAmount(d).ok THEN Sub(d, 1, KotakTrailAmount(d).g[1] - 1) ELSE d
    IN  IF s # <<>> /\ KotakDate1At(s, 1) # 0 /\ m.ok
        THEN [emit |-> TRUE,
              rec |-> [date |-> Sub(s, 1, 10),
                       description |-> SqueezeFrom(Strip(x), 1),
                       amount |-> KotakNormAmount(GroupText(s, m.g)),
                       credit |-> m.cr]]
        ELSE [emit |-> FALSE, rec |-> NoRec]

-----------------------------------------------------------------------------
(* Inputs of the Kotak profile                                             *)

MaxKotakLines == 3

KotakMinimumLines == {<<"M","i","n","i","m","u","m"," ","A","m","o","u","n","t"," ","D","u","e"," ","1",",","2","0","0",".","0","0">>}
KotakRawPool ==
    {<<"P","r","i","m","a","r","y"," ","C","a","r","d"," ","N","u","m","b","e","r"," ","4","1","4","7","6","7","X","X","X","X","X","X","8","3","1","4">>, <<"C","a","r","d"," ","E","n","d","i","n","g"," ","4","0","0","6">>,
     <<"S","t","a","t","e","m","e","n","t"," ","D","a","t","e"," ","2","2","/","0","6","/","2","0","2","4">>, <<"T","o","t","a","l"," ","A","m","o","u","n","t"," ","D","u","e"," ","1","2",",","3","4","5",".","6","7">>,
     <<"R","e","m","e","m","b","e","r"," ","t","o"," ","P","a","y"," ","B","y"," ","1","0"," ","J","u","l"," ","2","0","2","4">>,
     <<"1","5","/","0","6","/","2","0","2","4"," ","A","M","A","Z","O","N"," ","P","A","Y"," ","5","0","0",".","0","0">>, <<"1","6","/","0","6","/","2","0","2","4"," ","R","E","F","U","N","D"," "," ","1",",","2","0","0",".","0","0"," ","C","r">>}
    \cup KotakMinimumLines

\* documents made of amount lines only, among them amounts of zero
KotakBalanceLines ==
    {<<"T","o","t","a","l"," ","A","m","o","u","n","t"," ","D","u","e"," ","0",".","0","0">>, <<"T","o","t","a","l"," ","A","m","o","u","n","t"," ","D","u","e"," ","1","2",",","3","4","5",".","6","7">>,
     <<"M","i","n","i","m","u","m"," ","A","m","o","u","n","t"," ","D","u","e"," ","0",".","0","0">>, <<"M","i","n","i","m","u","m"," ","A","m","o","u","n","t"," ","D","u","e"," ","1",",","2","0","0",".","0","0">>}
KotakBalanceDocs == SeqsUpTo(KotakBalanceLines, MaxHeaderLines)

-----------------------------------------------------------------------------
(* parse_kotak as a state machine                                          *)

InitKotak ==
    /\ bank = "kotak"
    /\ pc = "start"
    /\ raw \in SeqsUpTo(KotakRawPool, MaxKotakLines) \cup KotakBalanceDocs
    /\ lines = <<>>
    /\ i = 0
    /\ hdr = EmptyHdr
    /\ transactions = <<>>
    /\ txsrc = <<>>
    /\ last = NoLast
    /\ visited = {}
    /\ doc = NoDoc
    /\ handles = <<>>
    /\ cursor = 0
    /\ outcome = NoOutcome

\* lines 76-86: extract_text_pymupdf opens the document, reads the pages and
\* closes the handle; the text is normalized and split into lines
KotakExtract ==
    /\ bank = "kotak" /\ pc = "start"
    /\ lines' = [k \in 1..Len(raw) |-> RStrip(CollapseSpaces(raw[k]))]
    /\ handles' = <<"closed">>
    /\ pc' = "header"
    /\ UNCHANGED <<bank, raw, i, hdr, transactions, txsrc, last, visited, doc, cursor, outcome>>

\* lines 89-217
KotakHeader ==
    /\ bank = "kotak" /\ pc = "header"
    /\ hdr' = KotakHeaderFields(lines, [k \in 1..Len(raw) |-> CollapseSpaces(raw[k])])
    /\ i' = 0
    /\ pc' = "scan"
    /\ UNCHANGED <<bank, raw, lines, transactions, txsrc, last, visited, doc, handles, cursor, outcome>>

\* lines 222-242: one iteration of the for loop
KotakScan ==
    /\ bank = "kotak" /\ pc = "scan"
    /\ i < Len(lines)
    /\ IciciScanApply(KotakScanLine(Strip(lines[i + 1])))
    /\ UNCHANGED <<bank, pc, raw, lines, hdr, doc, handles, cursor, outcome>>

\* lines 244-255
KotakFinish ==
    /\ bank = "kotak" /\ pc = "scan"
    /\ i >= Len(lines)
    /\ outcome' = [kind |-> "record", error |-> FALSE, fields |-> hdr,
                   transactions |-> transactions]
    /\ pc' = "done"
    /\ UNCHANGED <<bank, raw, lines, i, hdr, transactions, txsrc, last, visited, doc, handles, cursor>>

NextKotak == KotakExtract \/ KotakHeader \/ KotakScan \/ KotakFinish

SpecKotak == InitKotak /\ [][NextKotak]_vars

-----------------------------------------------------------------------------
(* The document handle in the five profiles: open, page reads, close and   *)
(* the way the invocation ends. A document is described by what the PDF    *)
(* library does with it: whether it opens, how many pages it has and which *)
(* page (if any) fails to be read. The text of the pages is not looked at  *)
(* here; each page read carries PageTx transaction lines.                  *)

MaxPages == 2
PageTx == 1

Banks == {"amex", "hdfc", "icici", "kotak", "sbi"}

Docs ==
    {[input |-> src, opens |-> o, pages |-> n, bad |-> b, consumed |-> FALSE, attempt |-> 1] :
        src \in {"stream", "path"}, o \in BOOLEAN, n \in 0..MaxPages, b \in 0..MaxPages}

parseVars == <<raw, lines, i, hdr, transactions, txsrc, last, visited>>

Init ==
    /\ bank \in Banks
    /\ doc \in {d \in Docs : d.bad <= d.pages}
    /\ pc = "open"
    /\ handles = <<>>
    /\ cursor = 0
    /\ outcome = NoOutcome
    /\ raw = <<>> /\ lines = <<>> /\ i = 0 /\ hdr = EmptyHdr
    /\ transactions = <<>> /\ txsrc = <<>> /\ last = NoLast /\ visited = {}

\* where the text extraction goes once every page is read: parse_sbi keeps
\* its own handle open (sbi_parser.py lines 124-126), every other reader
\* closes (amex_parser.py line 50, pdf_utils.py line 18)
AfterRead == IF bank = "sbi" /\ doc.attempt = 1 THEN "parse" ELSE "close"

\* an exception in the open or in a page read: parse_sbi catches the first
\* one and falls back to extract_text_pymupdf on the same input
\* (sbi_parser.py lines 127-129); everywhere else it reaches the caller
Fails(d) ==
    IF bank = "sbi" /\ doc.attempt = 1
    THEN /\ doc' = [d EXCEPT !.attempt = 2]
         /\ pc' = "open"
         /\ UNCHANGED outcome
    ELSE /\ doc' = d
         /\ pc' = "done"
         /\ outcome' = [kind |-> "raised", error |-> FALSE, ntx |-> 0]

\* _open_doc (amex_parser.py 35-42, hdfc_parser.py 23-30, sbi_parser.py
\* 28-34) and pdf_utils.py 10-13: a stream is read to its end and the bytes
\* are handed to the library; a stream read before yields no bytes, which
\* do not open
OpenDoc ==
    /\ pc = "open"
    /\ LET d == [doc EXCEPT !.consumed = (doc.input = "stream")]
       IN  IF doc.opens /\ ~doc.consumed
           THEN /\ handles' = Append(handles, "open")
                /\ doc' = d
                /\ pc' = IF bank = "hdfc" THEN "count"
                         ELSE IF doc.pages = 0 THEN AfterRead ELSE "read"
                /\ cursor' = 0
                /\ UNCHANGED outcome
           ELSE /\ Fails(d)
                /\ UNCHANGED <<handles, cursor>>
    /\ UNCHANGED <<bank, parseVars>>

\* one iteration of the page loop (amex_parser.py 48-49, pdf_utils.py 15-16,
\* sbi_parser.py 125)
ReadPage ==
    /\ pc = "read"
    /\ cursor < doc.pages
    /\ IF cursor + 1 = doc.bad
       THEN /\ Fails(doc)
            /\ UNCHANGED cursor
       ELSE /\ cursor' = cursor + 1
            /\ pc' = IF cursor + 1 = doc.pages THEN AfterRead ELSE "read"
            /\ UNCHANGED <<doc, outcome>>
    /\ UNCHANGED <<bank, handles, parseVars>>

\* hdfc_parser.py 90-91: the early return for a document without pages
HdfcEmpty ==
    /\ bank = "hdfc" /\ pc = "count"
    /\ doc.pages = 0
    /\ outcome' = [kind |-> "record", error |-> TRUE, ntx |-> 0]
    /\ pc' = "done"
    /\ UNCHANGED <<bank, doc, handles, cursor, parseVars>>

\* hdfc_parser.py 92-93: the spans of the first page are read
HdfcFirstPage ==
    /\ bank = "hdfc" /\ pc = "count"
    /\ doc.pages > 0
    /\ IF doc.bad = 1
       THEN Fails(doc)
       ELSE /\ pc' = "close"
            /\ UNCHANGED <<doc, outcome>>
    /\ UNCHANGED <<bank, handles, cursor, parseVars>>

\* amex_parser.py 50, pdf_utils.py 18, hdfc_parser.py 179: the handle opened
\* last is closed
CloseDoc ==
    /\ pc = "close"
    /\ handles' = [handles EXCEPT ![Len(handles)] = "closed"]
    /\ pc' = "parse"
    /\ UNCHANGED <<bank, doc, cursor, outcome, parseVars>>

\* the rest of the profile: the fields and the transactions are taken from
\* the text and the record is returned (amex_parser.py 91-311,
\* hdfc_parser.py 180-189 with its empty transaction list, icici_parser.py
\* 34-166, kotak_parser.py 83-255, sbi_parser.py 131-335)
Finish ==
    /\ pc = "parse"
    /\ outcome' = [kind |-> "record", error |-> FALSE,
                   ntx |-> IF bank = "hdfc" THEN 0 ELSE cursor * PageTx]
    /\ pc' = "done"
    /\ UNCHANGED <<bank, doc, handles, cursor, parseVars>>

Next == OpenDoc \/ ReadPage \/ HdfcEmpty \/ HdfcFirstPage \/ CloseDoc \/ Finish

Spec == Init /\ [][Next]_vars

-----------------------------------------------------------------------------
(* The amount normalizers of the five profiles as pure functions           *)

\* hdfc_parser.py _clean_amount, line 17: re.sub(r'\s*(CR|Dr|DR)\s*$', '', s)
\* under re.I on a stripped string: a final CR or DR goes, with the blanks
\* before it
HdfcDropMarker(s) ==
    IF Len(s) >= 2 /\ (HasAtI(s, Len(s) - 1, <<"C","R">>) \/ HasAtI(s, Len(s) - 1, <<"D","R">>))
    THEN Sub(s, 1, RunStart(s, Len(s) - 2, WS) - 1)
    ELSE s

\* hdfc_parser.py _clean_amount, lines 12-21
HdfcCleanAmount(s) ==
    LET t == HdfcDropMarker(Strip(DropChars(
                 Replace(Replace(DropChars(s, {"<rupee>", "<backtick>"}),
                                 <<"R","s">>, <<>>), <<"I","N","R">>, <<>>), {","})))
    IN  IF Falsy(s) THEN None
        ELSE IF FloatOK(t)
             THEN (IF FloatNegative(t) THEN <<"-">> ELSE <<>>) \o Fmt2Abs(t)
             ELSE None

\* sbi_parser.py _clean_amount, lines 13-26: the body of lines 16-26 is that
\* of kotak_parser.py _norm_amount, behind the test of line 14
SbiCleanAmount(tok) == IF Falsy(tok) THEN None ELSE KotakNormAmount(tok)

\* the normalizer of each profile
Normalizer(b, tok) ==
    CASE b = "amex"  -> AmexCleanAmount(tok)
      [] b = "hdfc"  -> HdfcCleanAmount(tok)
      [] b = "icici" -> IciciCleanAmount(tok)
      [] b = "kotak" -> KotakNormAmount(tok)
      [] b = "sbi"   -> SbiCleanAmount(tok)

\* amount tokens: a magnitude with a two-digit fraction, an optional currency
\* symbol of the bank, and one of four forms. A magnitude is valid when its
\* digits are grouped by commas as a number is written; the other two are
\* accepted by the patterns [0-9,]+\.\d{2} that cut the tokens
Magnitudes ==
    {[text |-> <<"4",",","0","5","3",".","6","1">>,  cents |-> 405361, valid |-> TRUE],
     [text |-> <<"3",",","4","8","1",".","7","2">>,  cents |-> 348172, valid |-> TRUE],
     [text |-> <<"1",",","2","3","4",".","0","0">>,  cents |-> 123400, valid |-> TRUE],
     [text |-> <<"2","0",",","0","8","9",".","0","0">>, cents |-> 2008900, valid |-> TRUE],
     [text |-> <<"4",".","9","9">>,      cents |-> 499, valid |-> TRUE],
     [text |-> <<"0",".","0","0">>,      cents |-> 0, valid |-> TRUE],
     [text |-> <<",",".","5","0">>,      cents |-> 50,  valid |-> FALSE],
     [text |-> <<"0","0","7",".","1","0">>,    cents |-> 710, valid |-> FALSE]}

CurrencyOf(b) ==
    IF b = "amex" THEN {<<>>, <<"$">>} ELSE {<<>>, <<"<rupee>">>, <<"R","s",".">>}

Forms == {"plain", "parentheses", "minus", "marker"}

TokenText(cur, m, form) ==
    CASE form = "plain"       -> cur \o m
      [] form = "parentheses" -> <<"(">> \o cur \o m \o <<")">>
      [] form = "minus"       -> <<"-">> \o cur \o m
      [] form = "marker"      -> cur \o m \o <<" ","C","R">>

AmountTokens(b) ==
    {[kind |-> "token", tok |-> TokenText(cur, m.text, form),
      cents |-> m.cents, valid |-> m.valid, form |-> form] :
        cur \in CurrencyOf(b), m \in Magnitudes, form \in Forms}

InitNormalize ==
    /\ bank \in Banks
    /\ pc = "token"
    /\ doc \in AmountTokens(bank)
    /\ raw = <<>> /\ lines = <<>> /\ i = 0 /\ hdr = EmptyHdr
    /\ transactions = <<>> /\ txsrc = <<>> /\ last = NoLast /\ visited = {}
    /\ handles = <<>> /\ cursor = 0
    /\ outcome = NoOutcome

\* the normalizer is applied to the token
NormalizeToken ==
    /\ pc = "token"
    /\ outcome' = [kind |-> "amount", first |-> Normalizer(bank, doc.tok), second |-> None]
    /\ pc' = "normalized"
    /\ UNCHANGED <<bank, doc, handles, cursor, parseVars>>

\* the normalizer is applied to the string it returned
NormalizeAgain ==
    /\ pc = "normalized"
    /\ outcome.first # None
    /\ outcome' = [outcome EXCEPT !.second = Normalizer(bank, outcome.first)]
    /\ pc' = "renormalized"
    /\ UNCHANGED <<bank, doc, handles, cursor, parseVars>>

NextNormalize == NormalizeToken \/ NormalizeAgain

SpecNormalize == InitNormalize /\ [][NextNormalize]_vars

-----------------------------------------------------------------------------
(* The header fields of parse_sbi: four stages of lookups                  *)

\* What a lookup of the document yields is an input of the stage. Each lookup
\* has a value of its own, so that the value of a field tells which lookup
\* supplied it; None is a lookup that finds nothing. Amounts are the tokens
\* AMOUNT_RE cuts, before _clean_amount
SbiSpanFinds ==
    [card_right     : {None, <<"3","4","5","8">>},
     card_vicinity  : {None, <<"9","9","2","1">>},
     statement_date : {None, <<"2","4","/","0","9","/","2","0","2","5">>},
     due_date       : {None, <<"2","0","/","1","0","/","2","0","2","5">>},
     total_due      : {None, <<"2","0",",","0","8","9",".","0","0">>},
     minimum_due    : {None, <<"1",",","0","0","4",".","4","5">>},
     period         : {None, <<"2","5","/","0","8","/","2","0","2","5">>}]

SbiLineFinds ==
    [card           : {None, <<"7","7","0","2">>},
     statement_date : {None, <<"2","4"," ","S","e","p"," ","2","0","2","5">>},
     range          : {None, <<"2","5"," ","A","u","g"," ","2","0","2","5">>},
     period         : {None, <<"2","6","/","0","8","/","2","0","2","5">>},
     total_due      : {None, <<"2","0",",","0","8","9",".","5","0">>},
     minimum_due    : {None, <<"1",",","0","0","4",".","5","0">>}]

\* lines 280-287: the distinct amounts of the header lines, in line order
SbiHeaderAmounts ==
    {<<>>, <<<<"6","0","0",".","0","0">>>>, <<<<"2","1","0","0","0",".","0","0">>, <<"6","0","0",".","0","0">>>>,
     <<<<"9","0","0","0",".","0","0">>, <<"2","1","0","0","0",".","0","0">>, <<"6","0","0",".","0","0">>>>}

NoFinds == [stage |-> "none"]

InitSbi ==
    /\ bank = "sbi"
    /\ pc = "inline"
    /\ doc \in {[kind |-> "sbi", opened |-> o, inline |-> None, finds |-> NoFinds] : o \in BOOLEAN}
    /\ hdr = EmptyHdr
    /\ raw = <<>>
    /\ lines = <<>>
    /\ i = 0
    /\ transactions = <<>>
    /\ txsrc = <<>>
    /\ last = NoLast
    /\ visited = {}
    /\ handles = <<>>
    /\ cursor = 0
    /\ outcome = NoOutcome

\* lines 149-157: 'Payment Due Date' and a date after it in the header text
SbiInlineDue ==
    /\ bank = "sbi" /\ pc = "inline"
    /\ \E m \in {None, <<"1","5"," ","O","c","t"," ","2","0","2","5">>} :
        /\ hdr' = [hdr EXCEPT !.due_date = IF m # None THEN m ELSE @]
        /\ doc' = [doc EXCEPT !.inline = m, !.finds = [stage |-> "inline"]]
    /\ pc' = "spans"
    /\ UNCHANGED <<bank, raw, lines, i, transactions, txsrc, last, visited, handles, cursor, outcome>>

\* lines 160-222, f the values the span lookups find: nothing when the
\* document could not be opened (line 160)
SbiSpanFields(h, f) ==
    [h EXCEPT
     !.card_last4 = IF f.card_right # None THEN f.card_right
                    ELSE IF f.card_vicinity # None THEN f.card_vicinity ELSE @,
     !.statement_date = IF f.statement_date # None THEN f.statement_date ELSE @,
     !.due_date = IF @ = None /\ f.due_date # None THEN f.due_date ELSE @,
     !.total_due = IF @ = None /\ f.total_due # None
                   THEN SbiCleanAmount(f.total_due) ELSE @,
     !.minimum_due = IF @ = None /\ f.minimum_due # None
                     THEN SbiCleanAmount(f.minimum_due) ELSE @,
     !.statement_period = IF @ = None /\ f.period # None THEN f.period ELSE @]

SbiSpanLookup ==
    /\ bank = "sbi" /\ pc = "spans"
    /\ \E f \in SbiSpanFinds :
        /\ hdr' = IF doc.opened THEN SbiSpanFields(hdr, f) ELSE hdr
        /\ doc' = [doc EXCEPT !.finds = [stage |-> "spans", found |-> f]]
    /\ pc' = "lines"
    /\ UNCHANGED <<bank, raw, lines, i, transactions, txsrc, last, visited, handles, cursor, outcome>>

\* lines 224-277, f the values the line searches find
SbiLineFields(h, f) ==
    [h EXCEPT
     !.card_last4 = IF Falsy(@) /\ f.card # None THEN f.card ELSE @,
     !.statement_date = IF Falsy(@) /\ f.statement_date # None THEN f.statement_date ELSE @,
     !.statement_period = IF ~Falsy(@) THEN @
                          ELSE IF f.range # None THEN f.range
                          ELSE IF f.period # None THEN f.period ELSE @,
     !.total_due = IF Falsy(@) /\ ~Falsy(SbiCleanAmount(f.total_due))
                   THEN SbiCleanAmount(f.total_due) ELSE @,
     !.minimum_due = IF Falsy(@) /\ ~Falsy(SbiCleanAmount(f.minimum_due))
                     THEN SbiCleanAmount(f.minimum_due) ELSE @]

SbiLineFallbacks ==
    /\ bank = "sbi" /\ pc = "lines"
    /\ \E f \in SbiLineFinds :
        /\ hdr' = SbiLineFields(hdr, f)
        /\ doc' = [doc EXCEPT !.finds = [stage |-> "lines", found |-> f]]
    /\ pc' = "heuristic"
    /\ UNCHANGED <<bank, raw, lines, i, transactions, txsrc, last, visited, handles, cursor, outcome>>

\* lines 279-302: byval is hdr_amts sorted as numbers; byval[0] for a missing
\* minimum, byval[-1] for a missing total when there are two amounts
SbiHeuristicFields(h, amts) ==
    LET S == {amts[k] : k \in 1..Len(amts)}
        smallest == CHOOSE v \in S : \A w \in S : CentsOf(v) <= CentsOf(w)
        largest  == CHOOSE v \in S : \A w \in S : CentsOf(w) <= CentsOf(v)
    IN  IF (Falsy(h.total_due) \/ Falsy(h.minimum_due)) /\ amts # <<>>
        THEN [h EXCEPT
              !.minimum_due = IF Falsy(@) THEN smallest ELSE @,
              !.total_due = IF Falsy(@) /\ Len(amts) > 1 THEN largest ELSE @]
        ELSE h

SbiHeuristic ==
    /\ bank = "sbi" /\ pc = "heuristic"
    /\ \E amts \in SbiHeaderAmounts :
        /\ hdr' = SbiHeuristicFields(hdr, amts)
        /\ doc' = [doc EXCEPT !.finds = [stage |-> "heuristic", amounts |-> amts]]
    /\ pc' = "transactions"
    /\ UNCHANGED <<bank, raw, lines, i, transactions, txsrc, last, visited, handles, cursor, outcome>>

NextSbi == SbiInlineDue \/ SbiSpanLookup \/ SbiLineFallbacks \/ SbiHeuristic
-----------------------------------------------------------------------------
(* The profiles side by side                                               *)

\* parse_amex on the multi-line documents and on the documents shorter than
\* MaxLines, parse_icici on the amount-only documents and on the documents of
\* at most MaxIciciTx lines, parse_kotak on all of its documents, and the
\* header stages of parse_sbi
InitProfiles ==
    \/ InitAmex /\ (raw \in AmexLookaheadDocs \cup AmexBalanceDocs \cup AmexRangeDocs
                      \/ Len(raw) < MaxLines)
    \/ InitIcici /\ (raw \in IciciBalanceDocs \/ Len(raw) <= MaxIciciTx)
    \/ InitKotak
    \/ InitSbi

NextProfiles == NextAmex \/ NextIcici \/ NextKotak \/ NextSbi

SpecProfiles == InitProfiles /\ [][NextProfiles]_vars

\* the record the scan of the bank makes of the line at 0-based index c
RecordOfLine(c) ==
    CASE bank = "amex"  -> AmexScanStep(lines, c).rec
      [] bank = "icici" -> IciciScanLine(Strip(lines[c + 1])).rec
      [] bank = "kotak" -> KotakScanLine(Strip(lines[c + 1])).rec

-----------------------------------------------------------------------------
(* The text-adjacency lookups: _find_nearby_value and _line_nearby_search  *)

\* sbi_parser.py DATE_DD_MON_YYYY (line 9) matched at p: as DATE_RE2 of
\* kotak_parser.py, with a month of exactly three letters
SbiDate2At(s, p) ==
    LET d  == IF In(s, p + 1, Digits) THEN p + 1 ELSE p
        w1 == RunEnd(s, d + 1, WS)
        l  == RunEnd(s, w1 + 1, Letters)
        w2 == RunEnd(s, l + 1, WS)
    IN  IF /\ In(s, p, Digits) /\ w1 >= d + 1 /\ l = w1 + 3 /\ w2 >= l + 1
           /\ FourDigitsAt(s, w2 + 1)
        THEN w2 + 4 ELSE 0

\* sbi_parser.py lines 114-117: DATE_DDMMYYYY (the pattern of DATE_RE1), then
\* DATE_DD_MON_YYYY
SbiDateIn(s) ==
    LET h1 == {p \in 1..Len(s) : KotakDate1At(s, p) # 0}
        h2 == {p \in 1..Len(s) : SbiDate2At(s, p) # 0}
    IN  IF h1 # {} THEN Sub(s, Min(h1), KotakDate1At(s, Min(h1)))
        ELSE IF h2 # {} THEN Sub(s, Min(h2), SbiDate2At(s, Min(h2)))
        ELSE None

\* what the pattern of the requested kind captures in the stripped line s,
\* None when it does not match (kotak lines 55-65, sbi lines 110-117)
NearbyCapture(b, kind, s) ==
    IF kind = "amount" THEN GroupedAmountToken(s)
    ELSE IF b = "kotak" THEN KotakDateIn(s) ELSE SbiDateIn(s)

\* the value returned for a capture: amounts pass through the normalizer
NearbyReturn(b, kind, cap) ==
    IF kind = "date" THEN cap
    ELSE IF b = "kotak" THEN KotakNormAmount(cap) ELSE SbiCleanAmount(cap)

MaxNearbyLines == 3
MaxForward == 2
MaxBack == 1

NearbyPool ==
    {<<" ">>, <<"T","o","t","a","l"," ","D","u","e">>, <<"R","s","."," ","1",",","2","0","0",".","0","0">>, <<"1","5","/","1","0","/","2","0","2","5">>, <<"7"," ","S","e","p","t"," ","2","0","2","4">>}

NearbyCalls(n) ==
    {[kind |-> "lookup", idx |-> x, value |-> v, forward |-> f, back |-> k] :
        x \in 1..n, v \in {"amount", "date"}, f \in 1..MaxForward, k \in 0..MaxBack}

InitNearby ==
    /\ bank \in {"kotak", "sbi"}
    /\ pc = "lookup"
    /\ lines \in SeqsUpTo(NearbyPool, MaxNearbyLines) \ {<<>>}
    /\ doc \in NearbyCalls(Len(lines))
    /\ cursor = 0
    /\ visited = {}
    /\ outcome = NoOutcome
    /\ raw = <<>>
    /\ i = 0
    /\ hdr = EmptyHdr
    /\ transactions = <<>>
    /\ txsrc = <<>>
    /\ last = NoLast
    /\ handles = <<>>

\* the line numbers the call of the state visits, in order
NearbyPlan == NearbyOrder(Len(lines), doc.idx, doc.forward, doc.back)

\* one iteration of the loop (kotak lines 50-65, sbi lines 107-117): the next
\* line is stripped; a blank line or a line without a match is passed over,
\* a match ends the call
NearbyVisit ==
    /\ pc = "lookup"
    /\ cursor < Len(NearbyPlan)
    /\ LET j   == NearbyPlan[cursor + 1]
           ln  == Strip(lines[j])
           cap == IF ln = <<>> THEN None ELSE NearbyCapture(bank, doc.value, ln)
       IN  /\ visited' = visited \cup {j}
           /\ cursor' = cursor + 1
           /\ IF cap # None
              THEN /\ outcome' = [kind |-> "value", at |-> j,
                                  value |-> NearbyReturn(bank, doc.value, cap)]
                   /\ pc' = "returned"
              ELSE UNCHANGED <<outcome, pc>>
    /\ UNCHANGED <<bank, raw, lines, i, hdr, transactions, txsrc, last, doc, handles>>

\* kotak line 66, sbi line 118: every line of the window has been passed over
NearbyMiss ==
    /\ pc = "lookup"
    /\ cursor = Len(NearbyPlan)
    /\ outcome' = [kind |-> "value", at |-> 0, value |-> None]
    /\ pc' = "returned"
    /\ UNCHANGED <<bank, raw, lines, i, hdr, transactions, txsrc, last, visited, doc, handles,
                   cursor>>

NextNearby == NearbyVisit \/ NearbyMiss

SpecNearby == InitNearby /\ [][NextNearby]_vars
-----------------------------------------------------------------------------
(* The spatial lookup _nearest_value_below of hdfc_parser.py and           *)
(* sbi_parser.py                                                           *)

\* hdfc_parser.py AMOUNT_RE (line 9), re.IGNORECASE, as a match of the whole
\* of s: currency characters, a grouped number of at most three leading
\* digits, blanks, and CR or Dr
HdfcPrefixChars ==
    {"<rupee>", "R", "r", "S", "s", "I", "i", "N", "n", ".", ","} \cup WS

HdfcAmountMatch(s) ==
    LET ds == {p \in 1..Len(s) : s[p] \in Digits}
        d  == Min(ds)
        q1 == RunEnd(s, d, Digits)
        q2 == ThousandsEnd(s, q1)
        q3 == IF HasAt(s, q2 + 1, <<".">>) /\ In(s, q2 + 2, Digits) /\ In(s, q2 + 3, Digits)
              THEN q2 + 3 ELSE q2
        t  == RunEnd(s, q3 + 1, WS) + 1
    IN  /\ ds # {}
        /\ \A k \in 1..(d - 1) : s[k] \in HdfcPrefixChars
        /\ q1 <= d + 2
        /\ \/ t > Len(s)
           \/ Len(s) = t + 1 /\ (HasAtI(s, t, <<"C","R">>) \/ HasAtI(s, t, <<"D","r">>))

\* hdfc_parser.py DATE_RE (line 7) matched at p: dd/mm/yyyy, or a month name
\* of three letters or more, a day, a comma and a year
HdfcDateAt(s, p) ==
    LET l  == RunEnd(s, p, Letters)
        w  == RunEnd(s, l + 1, WS)
        d  == IF In(s, w + 2, Digits) THEN w + 2 ELSE w + 1
        y  == RunEnd(s, d + 2, WS) + 1
    IN  \/ /\ \A k \in {0, 1, 3, 4, 6, 7, 8, 9} : In(s, p + k, Digits)
           /\ HasAt(s, p + 2, <<"/">>) /\ HasAt(s, p + 5, <<"/">>)
        \/ /\ l >= p + 2
           /\ w >= l + 1 /\ In(s, w + 1, Digits)
           /\ HasAt(s, d + 1, <<",">>) /\ FourDigitsAt(s, y)

HdfcDateSearch(s) == \E p \in 1..Len(s) : HdfcDateAt(s, p)

\* the test of the requested grammar on the text of a fragment
\* (hdfc lines 69-75, sbi lines 91-98)
BelowGrammar(b, kind, text) ==
    IF b = "hdfc"
    THEN IF kind = "amount" THEN HdfcAmountMatch(text) ELSE HdfcDateSearch(text)
    ELSE IF kind = "amount" THEN GroupedAmountToken(Strip(text)) # None
         ELSE SbiDateIn(Strip(text)) # None

\* max_vdist and x_tol of the calls: hdfc lines 155-168, sbi line 79
HdfcMaxVdist == 60
HdfcXTol == 25
SbiMaxVdist == 140
SbiXTol == 90
BelowMaxVdist(b) == IF b = "hdfc" THEN HdfcMaxVdist ELSE SbiMaxVdist
BelowXTol(b) == IF b = "hdfc" THEN HdfcXTol ELSE SbiXTol

\* the label fragment of the model's calls
LabelSpan == [x0 |-> 200, x1 |-> 260, y1 |-> 100]

MaxSpans == 2

SpanTexts == {<<"T","o","t","a","l"," ","D","u","e","s">>, <<"1","2",",","3","4","5",".","0","0"," ","D","r">>, <<"1","5","/","1","0","/","2","0","2","5">>}

\* fragments at the edges of the conditions: on the label's bottom edge and
\* below it, at the largest gap and beyond it; left of the column, on its
\* right end and beyond it
SpanPool(b) ==
    {[text |-> t, y0 |-> y, cx |-> x] :
        t \in SpanTexts,
        y \in {LabelSpan.y1, LabelSpan.y1 + 10,
               LabelSpan.y1 + BelowMaxVdist(b), LabelSpan.y1 + BelowMaxVdist(b) + 1},
        x \in {LabelSpan.x0 - BelowXTol(b) - 1, LabelSpan.x1 + BelowXTol(b),
               LabelSpan.x1 + BelowXTol(b) + 1}}

NoBest == [kind |-> "best", at |-> 0, dy |-> -1]

InitBelow ==
    /\ bank \in {"hdfc", "sbi"}
    /\ pc = "below"
    /\ doc \in {[kind |-> "spans", spans |-> sp, value |-> v] :
                    sp \in SeqsUpTo(SpanPool(bank), MaxSpans), v \in {"amount", "date"}}
    /\ cursor = 0
    /\ outcome = NoBest
    /\ visited = {}
    /\ raw = <<>>
    /\ lines = <<>>
    /\ i = 0
    /\ hdr = EmptyHdr
    /\ transactions = <<>>
    /\ txsrc = <<>>
    /\ last = NoLast
    /\ handles = <<>>

\* the conditions a fragment passes before the comparison with the best
\* (hdfc lines 62-75, sbi lines 85-98)
BelowPasses(b, kind, s) ==
    /\ ~(s.y0 <= LabelSpan.y1)
    /\ LabelSpan.x0 - BelowXTol(b) <= s.cx /\ s.cx <= LabelSpan.x1 + BelowXTol(b)
    /\ ~(s.y0 - LabelSpan.y1 > BelowMaxVdist(b))
    /\ BelowGrammar(b, kind, s.text)

\* a faulty variant: a fragment at the same gap replaces the best
BelowBetterOrEqual(dy, best) == best.at = 0 \/ dy <= best.dy

\* dy < best_dy, best_dy infinite before the first candidate
BelowBetter(dy, best) == best.at = 0 \/ dy < best.dy

\* one iteration of the loop over the fragments
BelowVisit ==
    /\ pc = "below"
    /\ cursor < Len(doc.spans)
    /\ LET s  == doc.spans[cursor + 1]
           dy == s.y0 - LabelSpan.y1
       IN  outcome' = IF BelowPasses(bank, doc.value, s) /\ BelowBetter(dy, outcome)
                      THEN [kind |-> "best", at |-> cursor + 1, dy |-> dy]
                      ELSE outcome
    /\ cursor' = cursor + 1
    /\ visited' = visited \cup {cursor + 1}
    /\ UNCHANGED <<bank, pc, raw, lines, i, hdr, transactions, txsrc, last, doc, handles>>

\* return best
BelowReturn ==
    /\ pc = "below"
    /\ cursor = Len(doc.spans)
    /\ pc' = "returned"
    /\ UNCHANGED <<bank, raw, lines, i, hdr, transactions, txsrc, last, visited, doc, handles,
                   cursor, outcome>>

NextBelow == BelowVisit \/ BelowReturn

SpecBelow == InitBelow /\ [][NextBelow]_vars
-----------------------------------------------------------------------------
(* Properties of the American Express profile                              *)

\* a canonical amount string: one or more digits, a point, two digits
CanonicalAmount(a) ==
    /\ a \in Seq(Digits \cup {"."})
    /\ Len(a) >= 4
    /\ a[Len(a) - 2] = "."
    /\ \A k \in 1..Len(a) : k # Len(a) - 2 => a[k] \in Digits

FourDigitString(s) == s \in Seq(Digits) /\ Len(s) = 4

\* the record appended by this step, when the step appends exactly one
Appended == transactions'[Len(transactions')]
AppendsOne ==
    /\ Len(transactions') = Len(transactions) + 1
    /\ SubSeq(transactions', 1, Len(transactions)) = transactions

\* C1: when the scan cursor is on a line made of a date token, a description
\* and a trailing amount token, the iteration appends exactly one record that
\* carries the date token verbatim, the text between date and amount as the
\* description and the amount normalized to a canonical decimal of the same
\* magnitude, with credit false when the amount token has no minus sign and
\* no parentheses, and the cursor moves on by exactly one line.
C1_SingleLineShape ==
    [][(bank = "amex" /\ pc = "scan" /\ i < Len(lines)) =>
        \A d \in AmexDateToks, x \in AmexDescToks, a \in AmexAmtToks :
            lines[i + 1] = Cat3(d, x, a.tok) =>
                /\ AppendsOne
                /\ Appended.date = d
                /\ Appended.description = x
                /\ CanonicalAmount(Appended.amount)
                /\ CentsOf(Appended.amount) = a.cents
                /\ (~a.neg => Appended.credit = FALSE)
                /\ i' = i + 1]_vars

\* the single-line shape has acted on "05/05/24 GOOGLE*KEVIN SERVICES $4.99"
C1_Witness ==
    /\ bank = "amex" /\ last.shape = "single" /\ i = last.at + 1
    /\ lines[i] = Cat3(<<"0","5","/","0","5","/","2","4">>, <<"G","O","O","G","L","E","*","K","E","V","I","N"," ","S","E","R","V","I","C","E","S">>, <<"$","4",".","9","9">>)
    /\ transactions # <<>>
    /\ transactions[Len(transactions)] =
           [date |-> <<"0","5","/","0","5","/","2","4">>, description |-> <<"G","O","O","G","L","E","*","K","E","V","I","N"," ","S","E","R","V","I","C","E","S">>,
            amount |-> <<"4",".","9","9">>, credit |-> FALSE]

\* date-only lines with the date they carry
AmexDateOnlyShapes ==
    {[line |-> <<"0","5","/","1","5","/","2","4">>, date |-> <<"0","5","/","1","5","/","2","4">>],
     [line |-> <<"0","4","/","1","9","/","2","4","*">>, date |-> <<"0","4","/","1","9","/","2","4">>]}

\* the 0-based positions c at which a date-only line, a description line and
\* an amount-only line follow one another
ThreeLineAt(c, d, x, a) ==
    /\ c + 3 <= Len(lines)
    /\ lines[c + 1] = d.line
    /\ lines[c + 2] = x
    /\ lines[c + 3] = a.tok

\* the records that took their date, description or amount from one of the
\* lines c, c+1, c+2
RecordsFrom(c) ==
    {k \in 1..Len(txsrc) :
        {txsrc[k].date, txsrc[k].desc, txsrc[k].amt} \cap {c, c + 1, c + 2} # {}}

\* C2: once the scan has examined a date-only line that is followed by a
\* description line and an amount-only line, exactly one record comes from
\* those three lines: its date is the first line's date, its description the
\* second line and its amount the third line's amount in canonical form; no
\* other record is ever emitted from any of the three lines.
C2_ThreeLineShape ==
    bank = "amex" =>
    \A c \in visited :
        \A d \in AmexDateOnlyShapes, x \in AmexDescLines, a \in AmexAmtToks :
            ThreeLineAt(c, d, x, a) =>
                /\ Cardinality(RecordsFrom(c)) = 1
                /\ \A k \in RecordsFrom(c) :
                    /\ txsrc[k] = [date |-> c, desc |-> c + 1, amt |-> c + 2]
                    /\ transactions[k].date = d.date
                    /\ transactions[k].description = x
                    /\ CanonicalAmount(transactions[k].amount)
                    /\ CentsOf(transactions[k].amount) = a.cents

\* the scan has finished a document that is exactly the three-line example
C2_Witness ==
    /\ bank = "amex" /\ pc = "done"
    /\ lines = <<<<"0","5","/","1","5","/","2","4">>, <<"D","E","L","T","A"," ","A","I","R"," ","L","I","N","E","S"," ","A","T","L","A","N","T","A">>, <<"$","1",",","7","5","8",".","6","3">>>>
    /\ 0 \in visited
    /\ transactions =
           <<[date |-> <<"0","5","/","1","5","/","2","4">>, description |-> <<"D","E","L","T","A"," ","A","I","R"," ","L","I","N","E","S"," ","A","T","L","A","N","T","A">>,
              amount |-> <<"1","7","5","8",".","6","3">>, credit |-> FALSE]>>

\* C10: the card_last4 field of a result is either absent or exactly four
\* decimal digits.
C10_CardLast4FourDigits ==
    (bank = "amex" /\ pc = "done") =>
        \/ outcome.fields.card_last4 = None
        \/ FourDigitString(outcome.fields.card_last4)

-----------------------------------------------------------------------------
(* Properties of the ICICI and Kotak profiles                              *)

\* C3: for a statement made of the lines "Statement Date: <d1>", "Payment Due
\* Date: <d2>", "Total Amount due <a1>", "Minimum Amount due <a2>" and one
\* transaction line "<date> <description> <amount>", parse_icici returns
\* statement_date <d1>, due_date <d2>, total_due and minimum_due equal to
\* <a1> and <a2> without their commas, and exactly one transaction, which
\* carries that amount and credit = false.
C3_IciciEndToEnd ==
    (bank = "icici" /\ pc = "done") =>
        \A d \in IciciDateToks, x \in IciciDescToks, a \in IciciAmtToks :
            (a.tok[1] \in Digits /\ raw = HeaderPick({1, 2, 3, 4}) \o <<Cat3(d, x, a.tok)>>) =>
                /\ outcome.fields.statement_date = IciciHeaderShapes[1].value
                /\ outcome.fields.due_date = IciciHeaderShapes[2].value
                /\ outcome.fields.total_due = IciciHeaderShapes[3].value
                /\ outcome.fields.minimum_due = IciciHeaderShapes[4].value
                /\ Len(outcome.transactions) = 1
                /\ outcome.transactions[1].amount = a.value
                /\ outcome.transactions[1].credit = FALSE

\* C4: when the text holds the masked card number "XXXX XXXX XXXX 4006" or
\* the phrase "Card Ending 4006", the returned card_last4 is "4006".
C4_CardLast4Extracted ==
    (bank = "icici" /\ pc = "done"
        /\ \E k \in 1..Len(raw) : raw[k] \in {<<"X","X","X","X"," ","X","X","X","X"," ","X","X","X","X"," ","4","0","0","6">>, <<"C","a","r","d"," ","E","n","d","i","n","g"," ","4","0","0","6">>})
    => outcome.fields.card_last4 = <<"4","0","0","6">>

\* C5: a document without a minimum-due label yields minimum_due absent,
\* while total_due, due_date and the transactions are what they would be with
\* a minimum-due line present.
C5_MissingMinimumDue ==
    (bank = "kotak" /\ pc = "done"
        /\ \A k \in 1..Len(raw) : ~Contains(LowerStr(raw[k]), <<"m","i","n","i","m","u","m">>))
    => /\ outcome.fields.minimum_due = None
       /\ \A m \in KotakMinimumLines :
            LET with == KotakHeaderFields(Append(lines, m), Append(lines, m))
            IN  /\ with.total_due = outcome.fields.total_due
                /\ with.due_date = outcome.fields.due_date
                /\ ~KotakScanLine(m).emit

\* an amount field is absent or a canonical amount string
AmountOrAbsent(a) == a = None \/ CanonicalAmount(a)

\* C9: in every returned record total_due, minimum_due and every transaction
\* amount is absent or one or more digits, a point and exactly two digits.
C9_AmountsWellFormed ==
    (pc = "done" /\ outcome.kind = "record") =>
        /\ AmountOrAbsent(outcome.fields.total_due)
        /\ AmountOrAbsent(outcome.fields.minimum_due)
        /\ \A k \in 1..Len(outcome.transactions) :
              AmountOrAbsent(outcome.transactions[k].amount)

-----------------------------------------------------------------------------
(* Properties of the document handle                                       *)

\* C6: parsing a document with zero pages returns a record that carries an
\* error indicator and no transactions, and no exception reaches the caller.
C6_ZeroPagesReported ==
    (pc = "done" /\ doc.opens /\ doc.pages = 0) =>
        /\ outcome.kind = "record"
        /\ outcome.error
        /\ outcome.ntx = 0

\* C7: when the document cannot be opened, parse returns a record with an
\* error indicator instead of raising.
C7_OpenFailureReported ==
    (pc = "done" /\ ~doc.opens) => (outcome.kind = "record" /\ outcome.error)

\* C8: when the invocation has ended, every handle it opened is closed.
C8_HandlesClosed ==
    pc = "done" => \A k \in 1..Len(handles) : handles[k] = "closed"

-----------------------------------------------------------------------------
(* Properties of the amount normalizers                                    *)

\* C11: for every amount token (optional currency symbol, comma-grouped
\* digits with a two-digit fraction, plain, in parentheses, with a leading
\* minus sign or followed by a CR marker) the normalizer of the bank returns
\* the unsigned two-decimal string whose value in cents is the magnitude of
\* the token.
C11_NormalizerRoundTrip ==
    (pc \in {"normalized", "renormalized"} /\ doc.valid) =>
        /\ CanonicalAmount(outcome.first)
        /\ CentsOf(outcome.first) = doc.cents

\* C12: applying a profile's normalizer to a string it has returned (a
\* normalized amount that is not absent) returns that same string.
C12_NormalizerIdempotent ==
    pc = "renormalized" => outcome.second = outcome.first

\* each of the five normalizers has been applied to its own result for a
\* token with a currency symbol and a comma group
C12_Witness ==
    /\ pc = "renormalized"
    /\ outcome.first = <<"2","0","0","8","9",".","0","0">>
    /\ doc.tok \in {<<"$","2","0",",","0","8","9",".","0","0">>, <<"<rupee>">> \o <<"2","0",",","0","8","9",".","0","0">>}
    /\ bank \in {"amex", "kotak"}

-----------------------------------------------------------------------------
(* Properties of the American Express scan in all its shapes               *)

\* the line a record's amount came from
AmountLineOf(k) == lines[txsrc[k].amt + 1]

\* C13: whenever the amount token that supplies a record's amount has a
\* leading minus sign (before or after the '$') or stands in parentheses,
\* the record's credit flag is true and its amount is the magnitude of the
\* token: in the single-line shape, in the shape of a date line followed by
\* an amount line, and in the shape with the amount on a later line.
C13_AmexCreditEveryShape ==
    bank = "amex" =>
        \A k \in 1..Len(transactions) : \A a \in AmexNegativeToks :
            (/\ txsrc[k].amt >= 0
             /\ \/ AmountLineOf(k) = a.tok
                \/ \E d \in AmexDateToks, x \in AmexDescToks :
                       AmountLineOf(k) = Cat3(d, x, a.tok)) =>
                /\ transactions[k].credit = TRUE
                /\ CanonicalAmount(transactions[k].amount)
                /\ CentsOf(transactions[k].amount) = a.cents

\* the source lines a record took its fields from
LinesOf(k) == {txsrc[k].date, txsrc[k].desc, txsrc[k].amt} \ {-1}

\* C18: when a date-only line takes its amount from a later line, the
\* cursor after the record stands one past the line that supplied the
\* amount, so that line is not examined again, and no source line gives
\* fields to two different records.
C18_AmexMultiLineCursor ==
    bank = "amex" =>
        /\ last.shape = "date+desc+amount" =>
               last.next = txsrc[Len(txsrc)].amt + 1
        /\ \A a, b \in 1..Len(txsrc) : a < b => LinesOf(a) \cap LinesOf(b) = {}

\* C19: every iteration of the scan loop moves the cursor forward and never
\* past the end: by 1 when no shape matches, for a single-line record and
\* for a date-only line that is the last line, by 2 to 4 for a multi-line
\* record; it appends at most one record. So the iterations are at most as
\* many as the lines, and the records at most as many as the iterations.
C19_AmexForwardScan ==
    /\ [](bank = "amex" =>
            /\ i <= Len(lines)
            /\ \A v \in visited : v < i
            /\ Cardinality(visited) <= Len(lines)
            /\ Len(transactions) <= Cardinality(visited))
    /\ [][(bank = "amex" /\ pc = "scan" /\ i < Len(lines)) =>
            /\ i' > i
            /\ Len(transactions') <= Len(transactions) + 1
            /\ last'.shape \in {"skip", "single", "loose"} => i' = i + 1
            /\ last'.shape = "date" => (i' = i + 1 /\ i + 1 = Len(lines))
            /\ last'.shape \in {"date+amount", "date+desc", "date+desc+amount"} =>
                   (i' - i \in 2..4 /\ last'.emit)]_vars

\* a date-only line has taken its amount from the fourth line after it
C19_Witness ==
    /\ bank = "amex" /\ pc = "scan" /\ i = last.next
    /\ last.shape = "date+desc+amount"
    /\ last.next = last.at + 4
    /\ transactions[Len(transactions)].amount = <<"1","7","5","8",".","6","3">>

-----------------------------------------------------------------------------
(* Properties of the three line-scanning profiles                          *)

\* C14: the records of the transactions list stand in the order of the
\* source lines they were recognized from: each record is the one its source
\* line yields, the source lines of any two records are in the order of the
\* records, and the list that is returned is this list, in this order, also
\* when parse_amex has derived statement_period from the earliest date.
C14_TransactionOrder ==
    /\ Len(txsrc) = Len(transactions)
    /\ \A a, b \in 1..Len(txsrc) : a < b => txsrc[a].date < txsrc[b].date
    /\ \A k \in 1..Len(txsrc) : transactions[k] = RecordOfLine(txsrc[k].date)
    /\ pc = "done" => outcome.transactions = transactions

\* parse_amex has returned two records whose dates descend, and has derived
\* statement_period from the second, earlier one
C14_Witness ==
    /\ bank = "amex" /\ pc = "done"
    /\ Len(outcome.transactions) = 2
    /\ outcome.transactions[1].date = <<"5","/","1","5","/","2","0","2","4">>
    /\ outcome.transactions[2].date = <<"0","5","/","0","5","/","2","4">>
    /\ outcome.fields.statement_period = <<"0","5","/","0","5","/","2","4">>

\* the two amount fields of the header, and whether the document names one:
\* some line holds one of the words the profiles' labels for it start with
AmountFields == {"total_due", "minimum_due"}
LabelWords(f) ==
    IF f = "minimum_due" THEN {<<"m","i","n","i","m","u","m">>}
    ELSE {<<"t","o","t","a","l">>, <<"n","e","w"," ","b","a","l","a","n","c","e">>, <<"a","m","o","u","n","t"," ","d","u","e">>}
Named(f) ==
    \E k \in 1..Len(raw) : \E w \in LabelWords(f) : Contains(LowerStr(raw[k]), w)

\* a string of digits and points in which every digit is 0
ZeroMagnitude(a) ==
    /\ a # None
    /\ a \in Seq(Digits \cup {"."})
    /\ \E k \in 1..Len(a) : a[k] \in Digits
    /\ \A k \in 1..Len(a) : a[k] \in Digits => a[k] = "0"

\* C15: for total_due and minimum_due, a value of zero magnitude is returned
\* as "0.00"; a field the document does not name is returned absent and
\* never as "0.00" or as an empty string.
C15_AbsentVersusZero ==
    bank \in {"amex", "icici", "kotak"} =>
        \A f \in AmountFields :
            /\ hdr[f] # <<>>
            /\ ZeroMagnitude(hdr[f]) => hdr[f] = <<"0",".","0","0">>
            /\ ~Named(f) => hdr[f] = None

\* a date token of the profiles' date grammars, as the whole of s:
\* d/m/y with one or two digits for day and month and two to four for the
\* year ('/' or '-' between), "7 Sep 2024", or "June 22, 2024"
NumericDate(s) == Len(s) \in AmexDateEnds(s, 1)
DayMonthYear(s) ==
    LET e1 == RunEnd(s, 1, Digits)
        e2 == RunEnd(s, e1 + 1, WS)
        e3 == RunEnd(s, e2 + 1, Letters)
        e4 == RunEnd(s, e3 + 1, WS)
    IN  /\ e1 \in {1, 2} /\ e2 > e1 /\ e3 >= e2 + 3 /\ e4 > e3
        /\ Len(s) = e4 + 4
        /\ \A k \in (e4 + 1)..Len(s) : s[k] \in Digits
MonthDayYear(s) ==
    LET e1 == RunEnd(s, 1, Letters)
        e2 == RunEnd(s, e1 + 1, WS)
        e3 == RunEnd(s, e2 + 1, Digits)
        e4 == RunEnd(s, e3 + 2, WS)
    IN  /\ e1 >= 3 /\ e2 > e1 /\ e3 - e2 \in {1, 2}
        /\ HasAt(s, e3 + 1, <<",">>)
        /\ Len(s) = e4 + 4
        /\ \A k \in (e4 + 1)..Len(s) : s[k] \in Digits
DateToken(s) == NumericDate(s) \/ DayMonthYear(s) \/ MonthDayYear(s)

\* C17: in every record, statement_date and due_date are each absent or
\* exactly one date token, never label text or other text that is no date.
C17_DatesAreDateTokens ==
    bank \in {"amex", "icici", "kotak"} =>
        \A f \in {"statement_date", "due_date"} :
            hdr[f] = None \/ DateToken(hdr[f])

-----------------------------------------------------------------------------
(* Properties of the five profiles over whole documents                    *)

\* C16: every profile runs the transaction scan over the text of the
\* document: a record that is returned without an error indicator holds a
\* transaction for every transaction line of every page (each page of the
\* documents holds PageTx of them).
C16_EveryProfileScans ==
    (pc = "done" /\ outcome.kind = "record" /\ ~outcome.error) =>
        outcome.ntx = doc.pages * PageTx

-----------------------------------------------------------------------------
(* The fallback chains of the header fields                                *)

HeaderFieldNames ==
    {"card_last4", "statement_date", "statement_period", "due_date",
     "total_due", "minimum_due"}

\* the value of the first strategy of a chain that yields one
FirstSuccess(chain) ==
    LET hits == {k \in 1..Len(chain) : chain[k] # None}
    IN  IF hits = {} THEN None ELSE chain[Min(hits)]

\* what each strategy of parse_amex yields on the document, taken alone, in
\* the order of the code (lines 105-167 and 255-299)
AmexStrategies(L, txs) ==
    LET block == JoinSp(Take(L, HeaderLines))
        token == LabelValue(block, <<<<"a","c","c","o","u","n","t">>, <<"e","n","d","i","n","g">>>>, "account")
    IN  [card_last4 |->
            <<IF token # None THEN AmexCardFromToken(token) ELSE None, AmexLateCard(L)>>,
         statement_date |->
            <<LabelValue(block, <<<<"c","l","o","s","i","n","g">>, <<"d","a","t","e">>>>, "date"),
              FirstLineValue(Take(L, ClosingLines), <<<<"c","l","o","s","i","n","g">>, <<"d","a","t","e">>>>, "date"),
              FirstLineValue(Take(L, HeaderLines), <<<<"c","l","o","s","i","n","g">>, <<"d","a","t","e">>>>, "date")>>,
         due_date |->
            <<LabelValue(block, <<<<"p","a","y","m","e","n","t">>, <<"d","u","e">>, <<"d","a","t","e">>>>, "date"),
              FirstLineValue(Take(L, DueLines), <<<<"p","a","y","m","e","n","t">>, <<"d","u","e">>, <<"d","a","t","e">>>>, "date"),
              LooseDueDate(Take(L, HeaderLines))>>,
         total_due |->
            <<AmexCleanAmount(LabelValue(block, <<<<"n","e","w">>, <<"b","a","l","a","n","c","e">>>>, "money")),
              AmexCleanAmount(LabelValue(block, <<<<"a","m","o","u","n","t">>, <<"d","u","e">>>>, "money")),
              AmexCleanAmount(
                  FirstLineValue(Take(L, DueLines), <<<<"n","e","w">>, <<"b","a","l","a","n","c","e">>>>, "money"))>>,
         statement_period |->
            <<DateRangeStart(block), DateRangeStart(JoinSp(Take(L, RangeLines))),
              IF Len(txs) > 0 THEN EarliestDate(txs) ELSE None>>,
         minimum_due |->
            <<AmexCleanAmount(
                  LabelValue(block, <<<<"m","i","n","i","m","u","m">>, <<"a","m","o","u","n","t">>, <<"d","u","e">>>>, "money"))>>]

\* the strategies of parse_kotak for the two amounts (lines 167-217): the
\* value near the label line, the pattern on the header region, the heuristic
KotakStrategies(L) ==
    LET T    == JoinNl(Take(L, LabelRegion))
        imin == LabelIndex(L, LabelRegion, {<<"m","i","n","i","m","u","m"," ","a","m","o","u","n","t">>, <<"m","i","n","i","m","u","m"," ","d","u","e">>})
        itot == LabelIndex(L, LabelRegion, {<<"t","o","t","a","l"," ","a","m","o","u","n","t">>, <<"t","o","t","a","l"," ","d","u","e","s">>})
    IN  [total_due |->
            <<IF itot = 0 THEN None ELSE KotakFindNearby(L, itot, "amount", 4, 2),
              KotakLabelAmount(T, <<"T","o","t","a","l"," ","A","m","o","u","n","t"," ","D","u","e">>),
              KotakHeuristic(L, None, None).total_due>>,
         minimum_due |->
            <<IF imin = 0 THEN None ELSE KotakFindNearby(L, imin, "amount", 4, 2),
              KotakLabelAmount(T, <<"M","i","n","i","m","u","m"," ","A","m","o","u","n","t"," ","D","u","e">>),
              KotakHeuristic(L, None, None).minimum_due>>]

\* C20: first success wins in every fallback chain. Once a header field has
\* a value, no later step of the same invocation changes it; the fields
\* parse_amex returns, and the two amounts parse_kotak returns, are each the
\* value of the first strategy of the field's chain that yields one (Amex's
\* 'New Balance' before 'Amount Due'); and a due date parse_sbi has found
\* inline stands through the stages after it, whatever the span lookup found.
C20_FirstSuccessWins ==
    /\ [][\A f \in HeaderFieldNames : hdr[f] # None => hdr'[f] = hdr[f]]_vars
    /\ [](bank = "amex" /\ pc = "done" =>
            LET chains == AmexStrategies(lines, transactions)
            IN  \A f \in HeaderFieldNames : hdr[f] = FirstSuccess(chains[f]))
    /\ [](bank = "kotak" /\ pc = "done" =>
            LET chains == KotakStrategies(lines)
            IN  \A f \in AmountFields : hdr[f] = FirstSuccess(chains[f]))
    /\ [](bank = "sbi" /\ pc # "inline" /\ doc.inline # None =>
            hdr.due_date = doc.inline)

\* parse_sbi has found a due date inline, its span lookup has found another,
\* and the inline one stands
C20_Witness ==
    /\ bank = "sbi" /\ pc = "lines" /\ doc.opened
    /\ doc.inline = <<"1","5"," ","O","c","t"," ","2","0","2","5">>
    /\ doc.finds.found.due_date = <<"2","0","/","1","0","/","2","0","2","5">>
    /\ hdr.due_date = <<"1","5"," ","O","c","t"," ","2","0","2","5">>

\* parse_amex has found 'New Balance' and 'Amount Due' and returns the former
AmexNewBalanceWins ==
    /\ bank = "amex" /\ pc = "done"
    /\ AmexStrategies(lines, transactions).total_due[1] = <<"4","0","5","3",".","6","1">>
    /\ AmexStrategies(lines, transactions).total_due[2] = <<"7",".","0","0">>
    /\ hdr.total_due = <<"4","0","5","3",".","6","1">>

\* parse_amex has a statement_period from the date range and a transaction
\* dated before it
AmexRangeStands ==
    /\ bank = "amex" /\ pc = "done"
    /\ hdr.statement_period = <<"0","6","/","0","1","/","2","4">>
    /\ AmexStrategies(lines, transactions).statement_period[3] = <<"0","5","/","0","5","/","2","4">>
-----------------------------------------------------------------------------
(* Properties of the lookups                                               *)

\* the place of line j in the priority of a call: the label line, the lines
\* after it in order, then the lines before it, nearest first
NearbyRank(j) == IF j >= doc.idx THEN j - doc.idx ELSE doc.forward + (doc.idx - j)

\* the lines of the window of a call
NearbyWindow ==
    {j \in 1..Len(lines) : j >= doc.idx - doc.back /\ j <= doc.idx + doc.forward}

\* line j is not blank and matches the grammar of the call
NearbyMatches(j) ==
    /\ Strip(lines[j]) # <<>>
    /\ NearbyCapture(bank, doc.value, Strip(lines[j])) # None

\* C21: _find_nearby_value and _line_nearby_search return the value of the
\* first non-blank line that matches the requested grammar, the lines taken
\* in the order idx, idx+1, ..., idx+forward, idx-1, ..., idx-back; no index
\* outside the list is read, no line outside the window supplies the value,
\* and None is returned when no line of the window matches.
C21_NearbyLookupOrder ==
    /\ visited \subseteq NearbyWindow
    /\ \A k \in 1..Len(NearbyPlan) : NearbyPlan[k] \in 1..Len(lines)
    /\ pc = "returned" =>
        LET hits == {j \in NearbyWindow : NearbyMatches(j)}
        IN  IF hits = {} THEN outcome.value = None /\ outcome.at = 0
            ELSE /\ outcome.at \in hits
                 /\ \A j \in hits : NearbyRank(outcome.at) <= NearbyRank(j)
                 /\ outcome.value # None
                 /\ outcome.value =
                        NearbyReturn(bank, doc.value,
                            NearbyCapture(bank, doc.value, Strip(lines[outcome.at])))
                 /\ bank = "kotak" =>
                        outcome.value = KotakFindNearby(lines, doc.idx, doc.value,
                                                        doc.forward, doc.back)

\* a date is asked for at a label line with a date on the line before it and
\* another on the line after it; the one after it is returned
C21_Witness ==
    /\ pc = "returned" /\ doc.value = "date" /\ doc.idx = 2 /\ doc.back = 1
    /\ lines = <<<<"1","5","/","1","0","/","2","0","2","5">>, <<"T","o","t","a","l"," ","D","u","e">>, <<"7"," ","S","e","p","t"," ","2","0","2","4">>>>
    /\ bank = "kotak"
    /\ outcome.at = 3 /\ outcome.value = <<"7"," ","S","e","p","t"," ","2","0","2","4">>

\* the fragments of the call that satisfy (a) to (d): start below the label's
\* bottom edge, centre within the label's span widened by x_tol, gap at most
\* max_vdist, text of the requested grammar
BelowGap(k) == doc.spans[k].y0 - LabelSpan.y1
BelowCandidates ==
    {k \in 1..Len(doc.spans) :
        /\ doc.spans[k].y0 > LabelSpan.y1
        /\ doc.spans[k].cx >= LabelSpan.x0 - BelowXTol(bank)
        /\ doc.spans[k].cx <= LabelSpan.x1 + BelowXTol(bank)
        /\ BelowGap(k) <= BelowMaxVdist(bank)
        /\ BelowGrammar(bank, doc.value, doc.spans[k].text)}

\* C22: _nearest_value_below returns a fragment that satisfies (a) to (d) and
\* has the smallest gap among those that do, the earliest in traversal order
\* on a tie; it returns None exactly when no fragment satisfies (a) to (d);
\* the fragment list is not modified.
C22_NearestBelow ==
    /\ [](pc = "returned" =>
            IF BelowCandidates = {} THEN outcome.at = 0
            ELSE /\ outcome.at \in BelowCandidates
                 /\ \A k \in BelowCandidates :
                        \/ BelowGap(outcome.at) < BelowGap(k)
                        \/ BelowGap(outcome.at) = BelowGap(k) /\ outcome.at <= k)
    /\ [][doc' = doc]_vars

\* two fragments at the same gap pass; the first is returned
C22_Witness ==
    /\ pc = "returned" /\ Len(doc.spans) = 2
    /\ BelowCandidates = {1, 2}
    /\ BelowGap(1) = BelowGap(2)
    /\ outcome.at = 1

\* the distinct amounts the heuristic of parse_kotak collects from the header
\* lines (lines 200-206)
KotakHeaderAmounts(L) ==
    {KotakNormAmount(GroupedAmountToken(L[k])) : k \in 1..Len(Take(L, LabelRegion))} \ {None}

SmallestAmount(S) == CHOOSE v \in S : \A w \in S : CentsOf(v) <= CentsOf(w)
LargestAmount(S) == CHOOSE v \in S : \A w \in S : CentsOf(w) <= CentsOf(v)

\* C23: when no label strategy has found total_due or minimum_due and the
\* header region yields two or more distinct amounts, minimum_due is the
\* numerically smallest and total_due the numerically largest of them, for
\* any number of amounts, in parse_kotak and in parse_sbi.
C23_SmallestAndLargest ==
    /\ [](bank = "kotak" /\ pc \in {"scan", "done"}
          /\ (\A f \in AmountFields : \A k \in 1..2 : KotakStrategies(lines)[f][k] = None)
          /\ Cardinality(KotakHeaderAmounts(lines)) >= 2
          => /\ hdr.minimum_due = SmallestAmount(KotakHeaderAmounts(lines))
             /\ hdr.total_due = LargestAmount(KotakHeaderAmounts(lines)))
    /\ [][bank = "sbi" /\ pc = "heuristic"
          /\ hdr.total_due = None /\ hdr.minimum_due = None
          /\ Len(doc'.finds.amounts) >= 2
          => LET S == {doc'.finds.amounts[k] : k \in 1..Len(doc'.finds.amounts)}
             IN  hdr'.minimum_due = SmallestAmount(S) /\ hdr'.total_due = LargestAmount(S)]_vars

\* the part of C23 that is about parse_sbi
SbiSmallestAndLargest ==
    [][bank = "sbi" /\ pc = "heuristic"
       /\ hdr.total_due = None /\ hdr.minimum_due = None
       /\ Len(doc'.finds.amounts) >= 2
       => LET S == {doc'.finds.amounts[k] : k \in 1..Len(doc'.finds.amounts)}
          IN  hdr'.minimum_due = SmallestAmount(S) /\ hdr'.total_due = LargestAmount(S)]_vars

\* the stripped line s ends in an amount followed by the credit suffix, "CR"
\* or "Cr"
CreditSuffixed(s) ==
    LET q == RunStart(s, Len(s) - 2, WS) - 1
    IN  /\ Len(s) >= 5
        /\ HasAt(s, Len(s) - 1, <<"C","R">>) \/ HasAt(s, Len(s) - 1, <<"C","r">>)
        /\ q >= 3 /\ s[q] \in Digits /\ s[q - 1] \in Digits /\ s[q - 2] = "."

\* C24: in the line scans of parse_icici and parse_kotak the credit flag of a
\* record is true if and only if the trailing amount of its source line is
\* followed by the credit suffix; "CR" elsewhere in the line does not set it.
C24_CreditFromSuffixOnly ==
    bank \in {"icici", "kotak"} =>
        \A k \in 1..Len(transactions) :
            k <= Len(txsrc) =>
                (transactions[k].credit <=> CreditSuffixed(Strip(lines[txsrc[k].date + 1])))

\* the part of C24 that is about parse_kotak
KotakCreditFromSuffixOnly == bank = "kotak" => C24_CreditFromSuffixOnly

\* a leading token that consists of digits only is removed, with the blanks
\* after it; leading digits that are part of a word stay
DropNumericToken(d) ==
    LET e == RunEnd(d, 1, Digits)
    IN  IF e >= 1 /\ (e = Len(d) \/ d[e + 1] \in WS)
        THEN Sub(d, RunEnd(d, e + 1, WS) + 1, Len(d))
        ELSE d

\* C25: the description of a record of parse_icici is its source line without
\* the leading date token, without a leading token that consists of digits
\* only, without the trailing amount and its CR marker, the runs of white
\* space collapsed and the ends trimmed; leading digits that are part of a
\* word are kept.
C25_IciciDescription ==
    bank = "icici" =>
        \A k \in 1..Len(transactions) :
            LET s == Strip(lines[txsrc[k].date + 1])
            IN  IciciAmountSearch(s, TRUE) # NoGroup =>
                    transactions[k].description =
                        Strip(SqueezeFrom(
                            DropNumericToken(Strip(IciciDropAmount(IciciDropDate(s)))), 1))

C27_IciciCap ==
    pc = "done" =>
        LET out == outcome.transactions
            all == {j \in 1..doc.n : Recognized(j)}
        IN  /\ Len(out) <= TxCap
            /\ Len(out) = IF Cardinality(all) > TxCap THEN TxCap ELSE Cardinality(all)
            /\ \A k \in 1..(Len(out) - 1) : out[k] < out[k + 1]
            /\ Len(out) > 0 =>
                   {out[k] : k \in 1..Len(out)} = {j \in all : j <= out[Len(out)]}
            /\ ~outcome.error

\* a document of 1002 transaction lines has been parsed: 1000 records are
\* returned, the last of them that of line 1000
C27_Witness ==
    /\ pc = "done" /\ doc.n = TxCap + 2 /\ doc.gap = 0
    /\ Len(transactions) = TxCap + 2
    /\ Len(outcome.transactions) = TxCap
    /\ outcome.transactions[TxCap] = TxCap
====
